---- MODULE Spec2Model ----
(***************************************************************************)
(* A model of the peg/leg grammar-to-recognizer compiler (package peg):    *)
(* character classes, the builder API, the analysis passes, the alternate  *)
(* optimizer, the label/jump code generator with its dry and real pass,    *)
(* and the recognizer the generator emits.                                 *)
(*                                                                         *)
(* Bytes are the integers 0..255; a string is a sequence of bytes.         *)
(***************************************************************************)
EXTENDS Integers, Sequences, FiniteSets, TLC

VARIABLES
  cc,      \* class spec: the characterClass under construction (set of bytes)
  cstr,    \* class spec: the text handed to AddClass
  cres,    \* class spec: the outcome of AddClass on cstr
  cpc,     \* class spec: "build" | "printed" | "parsed"
  rj,      \* class: the uint8 counter j of AddClass's range loop
  stack,   \* builder: Tree.stack[1..top]
  ruleId,  \* builder: Tree.ruleId, the next rule id
  rlist,   \* builder: the Tree's embedded list.List, the ordered rule list
  rules,   \* builder: Tree.rules, rule name -> rule
  varp,    \* builder: Tree.varp, the pending variable ("" when nil)
  rulesCount, \* Compile: Tree.rulesCount, rule name -> use count
  diag,    \* Compile: the diagnostics written to os.Stderr, in order
  ndecl,   \* Compile: how many rules of the list the front-end declared
  bpc,     \* builder: "idle" | "body" | "compiled"
  gram,    \* parse spec: which grammar of the catalog the front-end has built
  code,    \* parse spec: the emitted recognizer, for each setting of inline/switch
  Buffer,  \* parse spec: p.Buffer
  ms,      \* parse spec: the running recognizer, for each setting of inline/switch
  ppc,     \* parse spec: "built" | "compiled" | "reset" | "running"
  defines, \* directives: Tree.defines, directive name -> text
  called,  \* directives: the last call of Define, [name, text]
  xpc,     \* the other specifications: "off" or the part being driven
  nactions, \* thunks: len(t.Actions)
  bits,    \* thunks: the width of the action field Compile emitted, 0 before
  jn,      \* join: [pc, started, done, d], done the values buffered in the channel
  task,    \* join: per goroutine [state, pos, reads, writes]
  traces,  \* join: per task the visits it makes, each [reads, writes]
  pushed,  \* lists: the nodes pushed so far, in push order
  ltag,    \* lists: the list type being built, "Sequence" or "Alternate"
  vmap,    \* offsets: rule.variables of one rule, name -> the variable's offset
  ract,    \* offsets: [n, printed, names] the rule's actions, those printed so far
           \* and the variable-bound names compiled so far
  emitted  \* offsets: the uses of an offset in the emitted text

classVars == <<cc, cstr, cres, cpc, rj>>
buildVars == <<stack, ruleId, rlist, rules, varp, rulesCount, diag, ndecl, bpc>>

parseVars == <<gram, code, Buffer, ms, ppc>>
defineVars == <<defines, called>>
thunkVars == <<nactions, bits>>
joinVars == <<jn, task, traces>>
listVars == <<pushed, ltag>>
offsetVars == <<vmap, ract, emitted>>
auxVars == <<xpc, defineVars, thunkVars, joinVars, listVars, offsetVars>>

vars == <<cc, cstr, cres, cpc, rj, stack, ruleId, rlist, rules, varp, rulesCount, diag, ndecl, bpc,
          gram, code, Buffer, ms, ppc, defines, called, xpc,
          nactions, bits, jn, task, traces, pushed, ltag, vmap, ract, emitted>>

(***************************************************************************)
(* Each specification drives one part of the program and keeps the state   *)
(* of the other parts at rest.                                             *)
(***************************************************************************)
NoResult == [outcome |-> "none", set |-> {}]
EmptyMap == [x \in {} |-> 0]

ClassIdle ==
  /\ cc = {}
  /\ cstr = <<>>
  /\ cres = NoResult
  /\ cpc = "off"
  /\ rj = 0

BuildIdle ==
  /\ stack = <<>>
  /\ ruleId = 0
  /\ rlist = <<>>
  /\ rules = EmptyMap
  /\ varp = ""
  /\ rulesCount = EmptyMap
  /\ diag = <<>>
  /\ ndecl = 0
  /\ bpc = "off"

ParseIdle ==
  /\ gram = 0
  /\ code = <<>>
  /\ Buffer = <<>>
  /\ ms = <<>>
  /\ ppc = "off"

NoCall == [name |-> "", text |-> ""]

JoinIdle ==
  /\ jn = [pc |-> "off", started |-> 0, done |-> 0, d |-> 0]
  /\ task = <<>>
  /\ traces = <<>>

DefineIdle ==
  /\ defines = EmptyMap
  /\ called = NoCall

ThunkIdle ==
  /\ nactions = 0
  /\ bits = 0

ListIdle ==
  /\ pushed = <<>>
  /\ ltag = ""

OffsetIdle ==
  /\ vmap = EmptyMap
  /\ ract = [n |-> 0, printed |-> 0, names |-> 0]
  /\ emitted = <<>>

AuxIdle ==
  /\ xpc = "off"
  /\ OffsetIdle
  /\ DefineIdle
  /\ ThunkIdle
  /\ JoinIdle
  /\ ListIdle

(***************************************************************************)
(* Bounds.                                                                 *)
(***************************************************************************)
MaxClassSize == 4
MaxTextLen == 4         \* bytes of a class literal
MaxAdded == 10          \* AddAction calls of one behaviour
MaxPushed == 4          \* nodes combined into one list
MaxVars == 2            \* variables of one rule
MaxRuleActions == 2     \* actions of one rule
MaxNames == 2           \* variable-bound names compiled in one rule
MaxRules == 2          \* rules declared by the front-end
MaxNodes == 5          \* AST nodes built by the front-end, over all rule bodies

(***************************************************************************)
(* Bytes and the escapes shared by String, AddClass and the optimizer.     *)
(***************************************************************************)
Byte == 0..255

\* the byte values of the characters the source names
ChBel == 7
ChBs == 8
ChHt == 9
ChNl == 10
ChVt == 11
ChFf == 12
ChCr == 13
ChDquote == 34
ChQuote == 39
ChMinus == 45
ChLbrack == 91
ChBackslash == 92
ChRbrack == 93
ChCaret == 94
ChA == 97
ChB == 98
ChC == 99
ChF == 102
ChN == 110
ChR == 114
ChT == 116
ChV == 118

\* decoding of the letter after a backslash: \a \b \f \n \r \t \v decode, every
\* other byte stands for itself
unescape(b) ==
  CASE b = ChA -> ChBel
    [] b = ChB -> ChBs
    [] b = ChF -> ChFf
    [] b = ChN -> ChNl
    [] b = ChR -> ChCr
    [] b = ChT -> ChHt
    [] b = ChV -> ChVt
    [] OTHER -> b

\* fmt.Sprintf("%c", c) of a uint8: the UTF-8 encoding of the code point c
sprintfC(c) ==
  IF c < 128 THEN <<c>> ELSE <<192 + (c \div 64), 128 + (c % 64)>>

\* the escape closure of characterClass.String
escape(c) ==
  CASE c = ChBel -> <<ChBackslash, ChA>>
    [] c = ChBs -> <<ChBackslash, ChB>>
    [] c = ChFf -> <<ChBackslash, ChF>>
    [] c = ChNl -> <<ChBackslash, ChN>>
    [] c = ChCr -> <<ChBackslash, ChR>>
    [] c = ChHt -> <<ChBackslash, ChT>>
    [] c = ChVt -> <<ChBackslash, ChV>>
    [] c = ChQuote -> <<ChBackslash, ChQuote>>
    [] c = ChDquote -> <<ChBackslash, ChDquote>>
    [] c = ChLbrack -> <<ChBackslash, ChLbrack>>
    [] c = ChRbrack -> <<ChBackslash, ChRbrack>>
    [] c = ChBackslash -> <<ChBackslash, ChBackslash>>
    [] c = ChMinus -> <<ChBackslash, ChMinus>>
    [] OTHER -> sprintfC(c)

(***************************************************************************)
(* characterClass: a 256-bit bitmap, modelled as the set of its members.   *)
(***************************************************************************)
classComplement(c) == Byte \ c
classLen(c) == Cardinality(c)

\* characterClass.String.  The loop over character = 0..255 keeps the length l of
\* the current run of members: it prints escape(first) when a run starts, and when
\* the run [first, last] ends before 255 it prints escape(last) for l = 2 and
\* "-" escape(last) for l > 2; a run still open after 255 prints "-" escape(255)
\* when l >= 2.  The runs are taken in ascending order.
runEnd(c, first) ==
  CHOOSE e \in first..255 :
    /\ \A x \in first..e : x \in c
    /\ (e = 255 \/ (e + 1) \notin c)

runText(c, first) ==
  LET last == runEnd(c, first)
      l == last - first + 1
  IN escape(first) \o
     (IF last = 255
        THEN IF l >= 2 THEN <<ChMinus>> \o escape(255) ELSE <<>>
        ELSE IF l = 2 THEN escape(last)
        ELSE IF l > 2 THEN <<ChMinus>> \o escape(last)
        ELSE <<>>)

RECURSIVE classStringRuns(_, _)
classStringRuns(c, starts) ==
  IF starts = {} THEN <<>>
  ELSE LET first == CHOOSE x \in starts : \A y \in starts : x <= y
       IN runText(c, first) \o classStringRuns(c, starts \ {first})

classString(c) ==
  classStringRuns(c, {x \in c : x = 0 \/ (x - 1) \notin c})

(***************************************************************************)
(* Tree.AddClass: the class-literal parser.  Strings are indexed from 0 in *)
(* the source and from 1 here: text[i] of the source is At(text, i).       *)
(* Outcomes: "ok" with the bitmap, "panic" (index out of range), "loop"    *)
(* (the uint8 range loop never ends).                                      *)
(***************************************************************************)
At(text, i) == text[i + 1]

\* for j := last; j <= hi; j++ with j a uint8: ends iff hi < 255
rangeLoopEnds(hi) == hi < 255

RECURSIVE addClassLoop(_, _, _, _, _)
addClassLoop(text, i, last, hasLast, c) ==
  IF ~(i < Len(text) - 1)
    THEN [outcome |-> "ok", set |-> c]
    ELSE IF At(text, i) = ChMinus /\ hasLast
      THEN IF ~rangeLoopEnds(At(text, i + 1))
             THEN [outcome |-> "loop", set |-> c]
             ELSE addClassLoop(text, i + 2, last, FALSE,
                               c \cup {j \in Byte : last <= j /\ j <= At(text, i + 1)})
      ELSE IF At(text, i) = ChBackslash
        THEN LET l == unescape(At(text, i + 1))
             IN addClassLoop(text, i + 2, l, TRUE, c \cup {l})
        ELSE addClassLoop(text, i + 1, At(text, i), TRUE, c \cup {At(text, i)})

addClassParse(text0) ==
  IF Len(text0) = 0
    THEN [outcome |-> "panic", set |-> {}]
    ELSE LET inverse == text0[1] = ChCaret
             text == IF inverse THEN Tail(text0) ELSE text0
             r == addClassLoop(text, 0, 0, FALSE, {})
         IN IF r.outcome # "ok" THEN r
            ELSE IF Len(text) = 0 THEN [outcome |-> "panic", set |-> r.set]
            ELSE LET c == r.set \cup {text[Len(text)]}
                 IN [outcome |-> "ok",
                     set |-> IF inverse THEN classComplement(c) ELSE c]

(***************************************************************************)
(* AST nodes.  A node is a record with a type field; list nodes carry      *)
(* their children in kids, tokens their text in string.                    *)
(***************************************************************************)
nilNode == [type |-> "Nil", string |-> "<nil>"]
dot == [type |-> "Dot", string |-> "."]
commit == [type |-> "Commit", string |-> "commit"]
begin == [type |-> "Begin", string |-> "<"]
end == [type |-> "End", string |-> ">"]

\* &rule{name: name, id: id}; the zero rule &rule{} is newRule("", 0)
newRule(name, id) ==
  [type |-> "Rule", name |-> name, id |-> id, expression |-> nilNode,
   hasActions |-> FALSE, variables |-> {}]

newName(text, v) == [type |-> "Name", string |-> text, varp |-> v]
newList(t, kids) == [type |-> t, kids |-> kids]

ListTypes ==
  {"Alternate", "UnorderedAlternate", "Sequence", "PeekFor", "PeekNot",
   "Query", "Star", "Plus"}

MapPut(m, k, v) == [x \in (DOMAIN m) \cup {k} |-> IF x = k THEN v ELSE m[x]]

(***************************************************************************)
(* The builder API: a node stack, driven by the front-end.                 *)
(***************************************************************************)
RuleNames == {"A", "B", "C"}
\* rule names are distinct; up to renaming, the i-th declared rule takes the i-th name
RuleOrder == <<"A", "B", "C">>

push(st, n) == Append(st, n)
top(st) == st[Len(st)]
pop(st) == SubSeq(st, 1, Len(st) - 1)

\* t.ruleId++ of AddRule and of the placeholder loop of Compile
nextRuleIdStuck(id) == id
nextRuleId(id) == id + 1

\* Tree.addList on a stack
addListNested(st, listType) ==
  push(SubSeq(st, 1, Len(st) - 2), newList(listType, <<st[Len(st) - 1], st[Len(st)]>>))
addList(st, listType) ==
  LET a == st[Len(st)]
      b == st[Len(st) - 1]
      rest == SubSeq(st, 1, Len(st) - 2)
      l == IF b.type = listType
             THEN newList(listType, Append(b.kids, a))
             ELSE newList(listType, <<b, a>>)
  IN push(rest, l)

\* Tree.addFix on a stack
addFix(st, fixType) == push(pop(st), newList(fixType, <<top(st)>>))

RECURSIVE nodes(_)
nodes(n) ==
  IF n.type \in ListTypes
    THEN LET RECURSIVE sum(_)
             sum(i) == IF i = 0 THEN 0 ELSE nodes(n.kids[i]) + sum(i - 1)
         IN 1 + sum(Len(n.kids))
    ELSE 1

RECURSIVE bodyNodes(_, _)
bodyNodes(st, i) == IF i < 2 THEN 0 ELSE nodes(st[i]) + bodyNodes(st, i - 1)

RECURSIVE listNodes(_, _)
listNodes(l, i) ==
  IF i = 0 THEN 0 ELSE nodes(l[i].expression) + listNodes(l, i - 1)

\* the nodes built so far
builtNodes == listNodes(rlist, Len(rlist)) + bodyNodes(stack, Len(stack))


BuildInit ==
  /\ ClassIdle
  /\ ParseIdle
  /\ AuxIdle
  /\ stack = <<>>
  /\ ruleId = 0
  /\ rlist = <<>>
  /\ rules = EmptyMap
  /\ varp = ""
  /\ rulesCount = EmptyMap
  /\ diag = <<>>
  /\ ndecl = 0
  /\ bpc = "idle"

\* Tree.AddRule, called with a name not declared before
AddRule ==
  /\ bpc = "idle"
  /\ Len(rlist) < MaxRules
  /\ builtNodes < MaxNodes
  /\ Len(rlist) < Len(RuleOrder)
  /\ stack' = push(stack, newRule(RuleOrder[Len(rlist) + 1], ruleId))
  /\ ruleId' = nextRuleId(ruleId)
  /\ bpc' = "body"
  /\ UNCHANGED <<rlist, rules, varp, rulesCount, diag, ndecl>>
  /\ UNCHANGED classVars
  /\ UNCHANGED parseVars
  /\ UNCHANGED auxVars

\* Tree.AddName
AddName ==
  /\ bpc = "body"
  /\ builtNodes < MaxNodes
  /\ \E text \in RuleNames :
       /\ rules' = MapPut(rules, text, newRule("", 0))
       /\ stack' = push(stack, newName(text, varp))
  /\ varp' = ""
  /\ UNCHANGED <<ruleId, rlist, rulesCount, diag, ndecl, bpc>>
  /\ UNCHANGED classVars
  /\ UNCHANGED parseVars
  /\ UNCHANGED auxVars

\* Tree.AddDot
AddDot ==
  /\ bpc = "body"
  /\ builtNodes < MaxNodes
  /\ stack' = push(stack, dot)
  /\ UNCHANGED <<ruleId, rlist, rules, varp, rulesCount, diag, ndecl, bpc>>
  /\ UNCHANGED classVars
  /\ UNCHANGED parseVars
  /\ UNCHANGED auxVars

\* Tree.AddNil
AddNil ==
  /\ bpc = "body"
  /\ builtNodes < MaxNodes
  /\ stack' = push(stack, nilNode)
  /\ UNCHANGED <<ruleId, rlist, rules, varp, rulesCount, diag, ndecl, bpc>>
  /\ UNCHANGED classVars
  /\ UNCHANGED parseVars
  /\ UNCHANGED auxVars

\* Tree.AddQuery
AddQuery ==
  /\ bpc = "body"
  /\ Len(stack) >= 2
  /\ builtNodes < MaxNodes
  /\ stack' = addFix(stack, "Query")
  /\ UNCHANGED <<ruleId, rlist, rules, varp, rulesCount, diag, ndecl, bpc>>
  /\ UNCHANGED classVars
  /\ UNCHANGED parseVars
  /\ UNCHANGED auxVars

\* Tree.AddSequence
AddSequence ==
  /\ bpc = "body"
  /\ Len(stack) >= 3
  /\ (stack[Len(stack) - 1].type = "Sequence" \/ builtNodes < MaxNodes)
  /\ stack' = addList(stack, "Sequence")
  /\ UNCHANGED <<ruleId, rlist, rules, varp, rulesCount, diag, ndecl, bpc>>
  /\ UNCHANGED classVars
  /\ UNCHANGED parseVars
  /\ UNCHANGED auxVars

\* Tree.AddAlternate
AddAlternate ==
  /\ bpc = "body"
  /\ Len(stack) >= 3
  /\ (stack[Len(stack) - 1].type = "Alternate" \/ builtNodes < MaxNodes)
  /\ stack' = addList(stack, "Alternate")
  /\ UNCHANGED <<ruleId, rlist, rules, varp, rulesCount, diag, ndecl, bpc>>
  /\ UNCHANGED classVars
  /\ UNCHANGED parseVars
  /\ UNCHANGED auxVars

\* Tree.AddExpression, called when the stack holds the rule and its expression
AddExpression ==
  /\ bpc = "body"
  /\ Len(stack) = 2
  /\ LET expression == stack[2]
         rule == [stack[1] EXCEPT !.expression = expression]
     IN rlist' = Append(rlist, rule)
  /\ stack' = <<>>
  /\ bpc' = "idle"
  /\ UNCHANGED <<ruleId, rules, varp, rulesCount, diag, ndecl>>
  /\ UNCHANGED classVars
  /\ UNCHANGED parseVars
  /\ UNCHANGED auxVars

\* Compile, first loop: t.rules[rule.String()] = rule for every rule of the list
RECURSIVE registerDeclared(_, _, _)
registerDeclared(m, l, i) ==
  IF i > Len(l) THEN m ELSE registerDeclared(MapPut(m, l[i].name, l[i]), l, i + 1)

\* Compile, second loop: a placeholder rule for every name whose rule has no
\* name, in the order the map iteration yields them
RECURSIVE addPlaceholders(_, _)
addPlaceholders(st, order) ==
  IF order = <<>> THEN st
  ELSE LET name == Head(order)
           r == newRule(name, st.ruleId)
       IN addPlaceholders([ruleId |-> nextRuleId(st.ruleId),
                           rules |-> MapPut(st.rules, name, r),
                           rlist |-> Append(st.rlist, r)], Tail(order))

\* the orders in which a range over a map may yield the keys in S
Orders(S) ==
  {o \in [1..Cardinality(S) -> S] : \A i, j \in 1..Cardinality(S) : i # j => o[i] # o[j]}

\* Compile: rule registration and placeholders, lines 557-573
compileRegister(T, order) ==
  addPlaceholders([ruleId |-> T.ruleId,
                   rules |-> registerDeclared(T.rules, T.rlist, 1),
                   rlist |-> T.rlist], order)

undefinedNames(T) ==
  LET m == registerDeclared(T.rules, T.rlist, 1)
  IN {n \in DOMAIN m : m[n].name = ""}

(***************************************************************************)
(* The analysis passes of Compile.  T is the tree after registration:      *)
(* T.rlist the ordered rule list, T.rules the rules map.                   *)
(***************************************************************************)
\* t.rulesCount[name] = count + 1, or 1 for a first use
bumpCount(count, name) ==
  MapPut(count, name, IF name \in DOMAIN count THEN count[name] + 1 ELSE 1)

\* the rule-reference pass; st = [count, reached]
RECURSIVE countRules(_, _, _)
countRules(T, node, st) ==
  CASE node.type = "Rule" ->
         LET c == bumpCount(st.count, node.name)
         IN IF node.id \in st.reached
              THEN [st EXCEPT !.count = c]
              ELSE countRules(T, node.expression,
                              [count |-> c, reached |-> st.reached \cup {node.id}])
    [] node.type = "Name" -> countRules(T, T.rules[node.string], st)
    [] node.type \in {"Alternate", "UnorderedAlternate", "Sequence"} ->
         LET RECURSIVE each(_, _)
             each(i, s1) ==
               IF i > Len(node.kids) THEN s1
               ELSE each(i + 1, countRules(T, node.kids[i], s1))
         IN each(1, st)
    [] node.type \in {"PeekFor", "PeekNot", "Query", "Star", "Plus"} ->
         countRules(T, node.kids[1], st)
    [] OTHER -> st

\* the pass starts from the first rule of the list
rulesCountOf(T) ==
  countRules(T, T.rlist[1], [count |-> EmptyMap, reached |-> {}]).count

\* fmt.Fprintf(os.Stderr, "possible infinite left recursion in rule '%v'\n", node)
leftRecursionSilent(d, node) == d
leftRecursionDiag(d, node) == Append(d, [kind |-> "leftrec", rule |-> node.name])

\* the left-recursion pass; st = [reached, diag]; yields [consumes, st]
RECURSIVE checkRecursion(_, _, _)
checkRecursion(T, node, st) ==
  CASE node.type = "Rule" ->
         IF node.id \in st.reached
           THEN [consumes |-> FALSE,
                 st |-> [st EXCEPT !.diag = leftRecursionDiag(st.diag, node)]]
           ELSE LET r == checkRecursion(T, node.expression,
                                        [st EXCEPT !.reached = @ \cup {node.id}])
                IN [consumes |-> r.consumes,
                    st |-> [r.st EXCEPT !.reached = @ \ {node.id}]]
    [] node.type = "Alternate" ->
         LET RECURSIVE each(_, _)
             each(i, s1) ==
               IF i > Len(node.kids) THEN [consumes |-> TRUE, st |-> s1]
               ELSE LET r == checkRecursion(T, node.kids[i], s1)
                    IN IF ~r.consumes THEN [consumes |-> FALSE, st |-> r.st]
                       ELSE each(i + 1, r.st)
         IN each(1, st)
    [] node.type = "Sequence" ->
         LET RECURSIVE each(_, _)
             each(i, s1) ==
               IF i > Len(node.kids) THEN [consumes |-> FALSE, st |-> s1]
               ELSE LET r == checkRecursion(T, node.kids[i], s1)
                    IN IF r.consumes THEN [consumes |-> TRUE, st |-> r.st]
                       ELSE each(i + 1, r.st)
         IN each(1, st)
    [] node.type = "Name" -> checkRecursion(T, T.rules[node.string], st)
    [] node.type = "Plus" -> checkRecursion(T, node.kids[1], st)
    [] node.type \in {"Character", "String"} ->
         [consumes |-> Len(node.string) > 0, st |-> st]
    [] node.type \in {"Dot", "Class"} -> [consumes |-> TRUE, st |-> st]
    [] OTHER -> [consumes |-> FALSE, st |-> st]

\* for _, rule := range t.rules { checkRecursion(rule) }: every root starts with no
\* rule reached, so the order of the roots only orders the diagnostics; the roots
\* are taken in list order
RECURSIVE checkRecursionAll(_, _, _)
checkRecursionAll(T, i, d) ==
  IF i > Len(T.rlist) THEN d
  ELSE checkRecursionAll(T, i + 1,
         checkRecursion(T, T.rlist[i], [reached |-> {}, diag |-> d]).st.diag)

\* the diagnostics of the real pass, lines 1508-1530
RECURSIVE realPassDiag(_, _, _, _)
realPassDiag(T, count, i, d) ==
  IF i > Len(T.rlist) THEN d
  ELSE LET rule == T.rlist[i]
       IN IF rule.expression = nilNode
            THEN realPassDiag(T, count, i + 1,
                              Append(d, [kind |-> "undefined", rule |-> rule.name]))
            ELSE IF rule.name \notin DOMAIN count
              THEN realPassDiag(T, count, i + 1,
                                Append(d, [kind |-> "unused", rule |-> rule.name]))
              ELSE realPassDiag(T, count, i + 1, d)

\* Tree.Compile: registration, the analysis passes and the diagnostics of the
\* real pass
Compile ==
  /\ bpc = "idle"
  /\ Len(rlist) >= 1
  /\ LET T0 == [ruleId |-> ruleId, rules |-> rules, rlist |-> rlist]
     IN \E order \in Orders(undefinedNames(T0)) :
          LET T == compileRegister(T0, order)
              count == rulesCountOf(T)
          IN /\ ruleId' = T.ruleId
             /\ rules' = T.rules
             /\ rlist' = T.rlist
             /\ rulesCount' = count
             /\ diag' = realPassDiag(T, count, 1, checkRecursionAll(T, 1, <<>>))
  /\ ndecl' = Len(rlist)
  /\ bpc' = "compiled"
  /\ UNCHANGED <<stack, varp>>
  /\ UNCHANGED classVars
  /\ UNCHANGED parseVars
  /\ UNCHANGED auxVars

BuildNext ==
  \/ AddRule
  \/ AddName
  \/ AddDot
  \/ AddNil
  \/ AddQuery
  \/ AddSequence
  \/ AddAlternate
  \/ AddExpression
  \/ Compile

SpecBuild == BuildInit /\ [][BuildNext]_vars

\* C9: between rule definitions and after Compile has appended the placeholder
\* rules, every rule of the ordered rule list has an id equal to its 0-based
\* position; after Compile every id indexes the rules table, whose length is
\* len(t.rules).
C9_RuleIdDensity ==
  (bpc \in {"idle", "compiled"}) =>
    /\ \A i \in 1..Len(rlist) : rlist[i].id = i - 1
    /\ (bpc = "compiled" =>
          \A i \in 1..Len(rlist) : rlist[i].id < Cardinality(DOMAIN rules))

\* two declared rules and a placeholder, registered by Compile
C9_Witness ==
  /\ bpc = "compiled"
  /\ Len(rlist) = 3
  /\ rlist[1].expression # nilNode
  /\ rlist[2].expression # nilNode
  /\ rlist[3].expression = nilNode

(***************************************************************************)
(* optimizeAlternates, run when the switch flag is set.  A class result is *)
(* [k, s]: k = "nil" for a nil pointer, "empty" for the emptyString        *)
(* pointer, "set" for any other class; s is the set of bytes.  The pass    *)
(* rewrites rule bodies in place: st.rules is the rules map as rewritten   *)
(* so far, st.cache the per-rule cache, st.panic a run-time panic (nil     *)
(* dereference or index out of range).  A result is                        *)
(* [consumes, eof, peek, class, node, st] with node the node as rewritten. *)
(***************************************************************************)
nilClass == [k |-> "nil", s |-> {}]
emptyString == [k |-> "empty", s |-> {}]
newClass(s) == [k |-> "set", s |-> s]

noCache == [reached |-> FALSE, consumes |-> FALSE, eof |-> FALSE, peek |-> FALSE,
            class |-> nilClass]

optRes(consumes, eof, peek, class, node, st) ==
  [consumes |-> consumes, eof |-> eof, peek |-> peek, class |-> class,
   node |-> node, st |-> st]

\* the compare loop: the properties marked as intersecting a later one, or a panic
\* on a nil class
RECURSIVE scanLater(_, _, _)
scanLater(props, ai, bi) ==
  IF bi > Len(props) THEN "disjoint"
  ELSE IF props[ai].k = "nil" \/ props[bi].k = "nil" THEN "panic"
  ELSE IF props[ai].s \cap props[bi].s # {} THEN "intersects"
  ELSE scanLater(props, ai, bi + 1)

compareLoopMarked(props, ai, acc) ==
  [panic |-> FALSE, marked |-> 1..(Len(props) - 1)]
RECURSIVE compareLoop(_, _, _)
compareLoop(props, ai, acc) ==
  IF ai > Len(props) - 1 \/ acc.panic THEN acc
  ELSE LET r == scanLater(props, ai, ai + 1)
       IN compareLoop(props, ai + 1,
            [panic |-> r = "panic",
             marked |-> IF r = "intersects" THEN acc.marked \cup {ai} ELSE acc.marked])

\* the Class token and the Sequence(PeekFor(class), branch) built for a branch
\* that goes to the unordered list
classToken(class) == [type |-> "Class", string |-> classString(class.s), class |-> class.s]
guarded(class, branch) ==
  newList("Sequence", <<newList("PeekFor", <<classToken(class)>>), branch>>)

\* the split of the branches into ordered and unordered; acc = [ordered, unordered, max]
RECURSIVE splitBranches(_, _, _, _, _)
splitBranches(kids, props, marked, c, acc) ==
  IF c > Len(kids) THEN acc
  ELSE IF c \in marked
    THEN splitBranches(kids, props, marked, c + 1,
                       [acc EXCEPT !.ordered = Append(@, kids[c])])
    ELSE LET sequence == guarded(props[c], kids[c])
             length == classLen(props[c].s)
         IN splitBranches(kids, props, marked, c + 1,
              IF kids[c].type = "Nil"
                THEN [acc EXCEPT !.unordered = Append(@, sequence)]
                ELSE IF length > acc.max
                  THEN [acc EXCEPT !.unordered = Append(@, sequence), !.max = length]
                  ELSE [acc EXCEPT !.unordered = <<sequence>> \o @])

RECURSIVE optimizeAlternates(_, _, _)
optimizeAlternates(T, node, st) ==
  IF st.panic THEN optRes(FALSE, FALSE, FALSE, nilClass, node, st)
  ELSE
  CASE node.type = "Rule" ->
         IF node.name \in T.switchExcl
           THEN optRes(FALSE, FALSE, FALSE, nilClass, node, st)
         ELSE IF st.cache[node.id].reached
           THEN LET c == st.cache[node.id]
                IN optRes(c.consumes, c.eof, c.peek, c.class, node, st)
         ELSE LET st1 == [st EXCEPT !.cache[node.id].reached = TRUE]
                  r == optimizeAlternates(T, node.expression, st1)
                  rule == [node EXCEPT !.expression = r.node]
              IN optRes(r.consumes, r.eof, r.peek, r.class, rule,
                   [r.st EXCEPT !.cache[node.id] =
                                   [reached |-> TRUE, consumes |-> r.consumes,
                                    eof |-> r.eof, peek |-> r.peek, class |-> r.class],
                                !.rules[node.name] = rule])
    [] node.type = "Name" ->
         LET r == optimizeAlternates(T, st.rules[node.string], st)
         IN optRes(r.consumes, r.eof, r.peek, r.class, node, r.st)
    [] node.type = "Dot" -> optRes(TRUE, FALSE, FALSE, newClass(Byte), node, st)
    [] node.type \in {"String", "Character"} ->
         IF node.string = <<>>
           THEN optRes(TRUE, FALSE, FALSE, emptyString, node, st)
           ELSE optRes(TRUE, FALSE, FALSE,
                       newClass({IF node.string[1] = ChBackslash
                                   THEN unescape(node.string[2])
                                   ELSE node.string[1]}), node, st)
    [] node.type = "Class" ->
         optRes(TRUE, FALSE, FALSE, newClass(T.classes[node.string]), node, st)
    [] node.type = "Alternate" ->
         LET n == Len(node.kids)
             \* the first loop; acc = [consumes, eof, peek, class, props, kids, st]
             RECURSIVE branches(_, _)
             branches(c, acc) ==
               IF c > n \/ acc.st.panic THEN acc
               ELSE LET r == optimizeAlternates(T, node.kids[c], acc.st)
                    IN IF c = n /\ r.class.k = "empty"
                         THEN [acc EXCEPT !.kids = Append(@, r.node), !.st = r.st]
                         ELSE branches(c + 1,
                                [consumes |-> acc.consumes /\ r.consumes,
                                 eof |-> acc.eof \/ r.eof,
                                 peek |-> acc.peek /\ r.peek,
                                 class |-> acc.class \cup r.class.s,
                                 props |-> Append(acc.props, r.class),
                                 kids |-> Append(acc.kids, r.node),
                                 st |-> r.st])
             b == branches(1, [consumes |-> TRUE, eof |-> FALSE, peek |-> TRUE,
                               class |-> {}, props |-> <<>>, kids |-> <<>>, st |-> st])
             plain == newList("Alternate", b.kids)
             cmp == compareLoop(b.props, 1, [panic |-> Len(b.props) = 0, marked |-> {}])
             intersections == 2 + Cardinality(cmp.marked)
             split == splitBranches(b.kids, b.props, cmp.marked, 1,
                                    [ordered |-> <<>>, unordered |-> <<>>, max |-> 0])
             unordered == newList("UnorderedAlternate", split.unordered)
             rewritten == IF split.ordered = <<>> THEN unordered
                          ELSE newList("Alternate", Append(split.ordered, unordered))
             panicked == [b.st EXCEPT !.panic = TRUE]
         IN IF b.st.panic \/ b.eof
              THEN optRes(b.consumes, b.eof, b.peek, newClass(b.class), plain, b.st)
            ELSE IF cmp.panic
              THEN optRes(b.consumes, b.eof, b.peek, newClass(b.class), plain, panicked)
            ELSE IF intersections < Len(b.props)
              THEN IF Len(b.props) < n
                     THEN optRes(b.consumes, b.eof, b.peek, newClass(b.class), plain, panicked)
                     ELSE optRes(b.consumes, b.eof, b.peek, newClass(b.class), rewritten, b.st)
            ELSE optRes(b.consumes, b.eof, b.peek, newClass(b.class), plain, b.st)
    [] node.type = "Sequence" ->
         LET n == Len(node.kids)
             \* the elements up to the first that consumes;
             \* acc = [consumes, eof, peek, classes, kids, st]
             RECURSIVE leading(_, _)
             leading(c, acc) ==
               IF c > n \/ acc.consumes \/ acc.st.panic THEN acc
               ELSE LET r == optimizeAlternates(T, node.kids[c], acc.st)
                    IN leading(c + 1,
                         [consumes |-> r.consumes, eof |-> acc.eof \/ r.eof,
                          peek |-> acc.peek \/ r.peek,
                          classes |-> Append(acc.classes, [peek |-> r.peek, class |-> r.class]),
                          kids |-> Append(acc.kids, r.node), st |-> r.st])
             l == leading(1, [consumes |-> FALSE, eof |-> FALSE, peek |-> FALSE,
                              classes |-> <<>>, kids |-> <<>>, st |-> st])
             \* from the last class visited back to the first
             RECURSIVE fold(_, _)
             fold(c, class) ==
               IF c < 1 THEN class
               ELSE fold(c - 1,
                      IF l.classes[c].class.k = "nil" THEN class
                      ELSE IF l.classes[c].peek THEN class \cap l.classes[c].class.s
                      ELSE class \cup l.classes[c].class.s)
             \* the remaining elements are visited for their rewrites only
             RECURSIVE trailing(_, _)
             trailing(c, acc) ==
               IF c > n \/ acc.st.panic THEN acc
               ELSE LET r == optimizeAlternates(T, node.kids[c], acc.st)
                    IN trailing(c + 1, [kids |-> Append(acc.kids, r.node), st |-> r.st])
             t == trailing(Len(l.kids) + 1, [kids |-> l.kids, st |-> l.st])
         IN optRes(l.consumes, ~l.consumes /\ l.eof, ~l.consumes /\ l.peek,
                   newClass(fold(Len(l.classes), {})),
                   newList("Sequence", t.kids \o SubSeq(node.kids, Len(t.kids) + 1, n)), t.st)
    [] node.type = "PeekNot" ->
         LET r == optimizeAlternates(T, node.kids[1], st)
             sub == newList("PeekNot", <<r.node>>)
         IN IF r.st.panic \/ r.class.k = "nil"
              THEN optRes(FALSE, ~r.eof, TRUE, nilClass, sub, [r.st EXCEPT !.panic = TRUE])
              ELSE optRes(FALSE, ~r.eof, TRUE, newClass(classComplement(r.class.s)), sub, r.st)
    [] node.type \in {"PeekFor", "Query", "Star"} ->
         LET r == optimizeAlternates(T, node.kids[1], st)
         IN optRes(FALSE, r.eof, node.type = "PeekFor", r.class,
                   newList(node.type, <<r.node>>), r.st)
    [] node.type = "Plus" ->
         LET r == optimizeAlternates(T, node.kids[1], st)
         IN optRes(r.consumes, r.eof, r.peek, r.class, newList("Plus", <<r.node>>), r.st)
    [] node.type \in {"Action", "Nil"} ->
         optRes(FALSE, FALSE, FALSE, newClass({}), node, st)
    [] OTHER -> optRes(FALSE, FALSE, FALSE, nilClass, node, st)

\* the pass starts from the first rule of the list; the result is the rules map
\* with the rewritten bodies, and whether the pass panicked
optimize(T) ==
  optimizeAlternates(T, T.rlist[1],
    [cache |-> [id \in 0..(Len(T.rlist) - 1) |-> noCache],
     rules |-> T.rules, panic |-> FALSE]).st

(***************************************************************************)
(* The code generator.  The emitted recognizer is kept as one instruction  *)
(* list per rule closure instead of text:                                  *)
(*   cjump   if [!]cond { goto lN }      goto    goto lN                   *)
(*   label   lN:                         save    positionS, thunkPositionS *)
(*   restore position, thunkPosition = positionS, thunkPositionS           *)
(*   do, doarg, begin, end, switch/case/default/endswitch, return          *)
(* A call p.rules[ruleX]() is a cjump whose condition names the rule by    *)
(* the value of its constant; save and restore also carry the id of the    *)
(* label whose saveFlags they were printed from.                           *)
(* The writer w carries dryRun, nLabels, saveFlags, the ids of the labels  *)
(* marked used, and the instructions written for the current closure.      *)
(* G is the tree with its analysis results: rlist, rules, rulesCount,      *)
(* inline, hasActions, nact, classes, offsets; yyPush, yyPop and yySet are *)
(* the action numbers nact, nact+1 and nact+2.                             *)
(***************************************************************************)
\* The passes thread the writer through every call.  TLC evaluates an argument
\* only when it is first used, which would leave a whole pass as one chain of
\* pending evaluations; after(x, y) is y, with x evaluated first.
after(x, y) == IF x = x THEN y ELSE y

noFlags == [pos |-> FALSE, thPos |-> FALSE]
orFlags(f, g) == [pos |-> f.pos \/ g.pos, thPos |-> f.thPos \/ g.thPos]

\* writer.lnPrint: nothing is written in the dry run
lnPrint(w, ins) == IF w.dryRun THEN w ELSE [w EXCEPT !.out = Append(@, ins)]

\* writer.newLabel: the label, and the writer after it
newLabel(w) == [id |-> w.nLabels, sid |-> w.nLabels]
afterNewLabel(w) ==
  [w EXCEPT !.nLabels = @ + 1,
            !.saveFlags = IF w.dryRun THEN Append(@, noFlags) ELSE @]

labelUsedAlways(w, l) == TRUE
labelUsed(w, l) == l.id \in w.used
saveFlagsOf(w, l) == w.saveFlags[l.id + 1]

\* label.label
labelSite(w, l) == lnPrint(w, [op |-> "label", id |-> l.id])

\* label.jump
jump(w, l) ==
  [lnPrint(w, [op |-> "goto", target |-> l.id]) EXCEPT !.used = @ \cup {l.id}]

\* label.save: the snapshot the dry pass asked for, into the locals numbered sid
saveNever(w, l) == w
save(w, l) ==
  LET f == saveFlagsOf(w, l)
  IN IF f.pos \/ f.thPos
       THEN lnPrint(w, [op |-> "save", id |-> l.id, sid |-> l.sid,
                       pos |-> f.pos, thPos |-> f.thPos])
       ELSE w

\* label.saveBlock: save inside a block opened for it (braces are not modelled)
saveBlock(w, l) == save(w, l)

\* label.unsafe
unsafe(w, l) == saveFlagsOf(w, l).pos \/ saveFlagsOf(w, l).thPos

\* label.lrestore; hasLabel is FALSE for a nil label argument
lrestore(w, l, label, hasLabel, savePos, saveThPos) ==
  LET w1 == IF hasLabel /\ labelUsed(w, label) THEN labelSite(w, label) ELSE w
      w2 == IF savePos \/ saveThPos
              THEN lnPrint(w1, [op |-> "restore", id |-> l.id, sid |-> l.sid,
                                pos |-> savePos, thPos |-> saveThPos])
              ELSE w1
  IN IF w.dryRun
       THEN [w2 EXCEPT !.saveFlags[l.id + 1] =
               [pos |-> @.pos \/ savePos, thPos |-> @.thPos \/ saveThPos]]
       ELSE w2

\* label.restore
restore(w, l, savePos, saveThPos) == lrestore(w, l, l, TRUE, savePos, saveThPos)

\* label.cJump
cJump(w, l, jumpIfTrue, cond) ==
  LET w1 == [w EXCEPT !.used = @ \cup {l.id}]
  IN IF w.dryRun THEN w1
     ELSE [w1 EXCEPT !.out = Append(@, [op |-> "cjump", sense |-> jumpIfTrue,
                                        cond |-> cond, target |-> l.id])]

\* the byte a Character token stands for in matchChar('%v') and peekChar('%v')
charOf(string) ==
  IF Len(string) = 2 /\ string[1] = ChBackslash THEN unescape(string[2]) ELSE string[1]

condOf(c) == [c |-> c, arg |-> 0]
condArg(c, arg) == [c |-> c, arg |-> arg]

\* canCompilePeek: the direct peeks; [done, w]
canCompilePeek(w, node, jumpIfTrue, label) ==
  CASE node.type = "Dot" ->
         [done |-> TRUE, w |-> cJump(w, label, jumpIfTrue, condOf("peekDot"))]
    [] node.type = "Character" ->
         [done |-> TRUE,
          w |-> cJump(w, label, jumpIfTrue, condArg("peekChar", charOf(node.string)))]
    [] node.type = "Predicate" ->
         [done |-> TRUE, w |-> cJump(w, label, jumpIfTrue, condArg("pred", node.string))]
    [] OTHER -> [done |-> FALSE, w |-> w]

\* t.inline && t.rulesCount[name] == 1
inlined(G, name) ==
  G.inline /\ name \in DOMAIN G.rulesCount /\ G.rulesCount[name] = 1

\* what a call of a rule is taken to change when it succeeds: thunkPosition only
\* if the rule itself has variables or actions, position always ("safe guess")
callChanges(rule) ==
  [pos |-> TRUE, thPos |-> rule.variables # {} \/ rule.hasActions]

res(w, ko, ok) == [w |-> w, ko |-> ko, ok |-> ok]

\* compile and compileExpression; the result is [w, ko, ok] with ko and ok the
\* chgFlags returned as chgko and chgok
RECURSIVE compile(_, _, _, _)

\* compileExpression before and after the expression: doarg(yyPush, nvar) and
\* doarg(yyPop, nvar) around the code of a rule with variables
pushVariables(G, nvar, w) ==
  IF nvar > 0 THEN lnPrint(w, [op |-> "doarg", action |-> G.nact, arg |-> nvar]) ELSE w
popVariables(G, nvar, r) ==
  IF nvar > 0
    THEN res(lnPrint(r.w, [op |-> "doarg", action |-> G.nact + 1, arg |-> nvar]),
             [r.ko EXCEPT !.thPos = TRUE], [r.ok EXCEPT !.thPos = TRUE])
    ELSE r

compileExpression(G, rule, ko, w) ==
  popVariables(G, Cardinality(rule.variables),
               compile(G, rule.expression, ko,
                       pushVariables(G, Cardinality(rule.variables), w)))

compile(G, node, ko, w) ==
  after(w,
  CASE node.type = "Dot" ->
         res(cJump(w, ko, FALSE, condOf("matchDot")), noFlags, [pos |-> TRUE, thPos |-> FALSE])
    [] node.type = "Name" ->
         LET rule == G.rules[node.string]
             r == IF inlined(G, node.string)
                    THEN compileExpression(G, rule, ko, w)
                    ELSE res(cJump(w, ko, FALSE, condArg("call", rule.id)),
                             noFlags, callChanges(rule))
         IN after(r,
            IF node.varp # ""
              THEN res(lnPrint(r.w, [op |-> "doarg", action |-> G.nact + 2,
                                     arg |-> G.offsets[node.varp]]),
                       r.ko, [r.ok EXCEPT !.thPos = TRUE])
              ELSE r)
    [] node.type = "Character" ->
         res(cJump(w, ko, FALSE, condArg("matchChar", charOf(node.string))),
             noFlags, [pos |-> TRUE, thPos |-> FALSE])
    [] node.type = "String" ->
         res(IF node.string = <<>>
               THEN cJump(w, ko, FALSE, condOf("peekDot"))
               ELSE cJump(w, ko, FALSE, condArg("matchString", node.string)),
             noFlags, [pos |-> TRUE, thPos |-> FALSE])
    [] node.type = "Class" ->
         res(cJump(w, ko, FALSE, condArg("matchClass", G.classes[node.string])),
             noFlags, [pos |-> TRUE, thPos |-> FALSE])
    [] node.type = "Predicate" ->
         res(cJump(w, ko, FALSE, condArg("pred", node.string)), noFlags, noFlags)
    [] node.type = "Action" ->
         res(lnPrint(w, [op |-> "do", action |-> node.id]),
             noFlags, [pos |-> FALSE, thPos |-> TRUE])
    [] node.type = "Commit" ->
         res(cJump(w, ko, FALSE, condOf("commit")),
             [pos |-> FALSE, thPos |-> TRUE], noFlags)
    [] node.type = "Begin" ->
         res(IF G.hasActions THEN lnPrint(w, [op |-> "begin"]) ELSE w, noFlags, noFlags)
    [] node.type = "End" ->
         res(IF G.hasActions THEN lnPrint(w, [op |-> "end"]) ELSE w, noFlags, noFlags)
    [] node.type = "Alternate" ->
         LET ok == newLabel(w)
             w0 == afterNewLabel(w)
             w1 == IF unsafe(w0, ok) THEN save(w0, ok) ELSE w0
             n == Len(node.kids)
             \* the loop over all branches but the last; acc = [w, ko, ok, next]
             RECURSIVE branches(_, _)
             branches(i, acc) ==
               IF i >= n THEN acc
               ELSE LET next == newLabel(acc.w)
                        r == compile(G, node.kids[i], next, afterNewLabel(acc.w))
                        w2 == jump(r.w, ok)
                        w3 == IF labelUsed(w2, next)
                                THEN lrestore(w2, ok, next, TRUE, r.ko.pos, r.ko.thPos)
                                ELSE w2
                    IN after(r, branches(i + 1, [w |-> w3, ko |-> orFlags(acc.ko, r.ko),
                                                  ok |-> orFlags(acc.ok, r.ok), next |-> next]))
             a == branches(1, [w |-> w1, ko |-> noFlags, ok |-> noFlags, next |-> ok])
             b == IF n = 1 \/ labelUsed(a.w, a.next)
                    THEN LET r == compile(G, node.kids[n], ko, a.w)
                         IN after(r, res(r.w, orFlags(a.ko, r.ko), orFlags(a.ok, r.ok)))
                    ELSE res(a.w, a.ko, a.ok)
         IN after(<<a, b>>,
                  res(IF labelUsed(b.w, ok) THEN labelSite(b.w, ok) ELSE b.w, b.ko, b.ok))
    [] node.type = "UnorderedAlternate" ->
         LET ok == newLabel(w)
             n == Len(node.kids)
             w1 == cJump(afterNewLabel(w), ko, TRUE, condOf("atEnd"))
             w2 == lnPrint(w1, [op |-> "switch", sw |-> ok.id,
                                classes |-> [i \in 1..(n - 1) |->
                                               node.kids[i].kids[1].kids[1].class]])
             RECURSIVE cases(_, _)
             cases(i, acc) ==
               IF i > n THEN acc
               ELSE LET w3 == lnPrint(acc.w,
                                IF i < n THEN [op |-> "case", sw |-> ok.id, idx |-> i]
                                         ELSE [op |-> "default", sw |-> ok.id])
                        r == compile(G, node.kids[i].kids[2], ko, w3)
                    IN after(r, cases(i + 1, res(r.w, orFlags(acc.ko, r.ko), orFlags(acc.ok, r.ok))))
             c == cases(1, res(w2, noFlags, noFlags))
         IN after(c, res(lnPrint(c.w, [op |-> "endswitch", sw |-> ok.id]), c.ko, c.ok))
    [] node.type = "Sequence" ->
         LET n == Len(node.kids)
             RECURSIVE elements(_, _)
             elements(i, acc) ==
               IF i > n THEN acc
               ELSE LET r == compile(G, node.kids[i], ko, acc.w)
                    IN after(r, elements(i + 1, res(r.w, orFlags(acc.ko, r.ko), orFlags(acc.ok, r.ok))))
             e == elements(1, res(w, noFlags, noFlags))
         IN after(e, IF n > 1 THEN res(e.w, orFlags(e.ko, e.ok), e.ok) ELSE e)
    [] node.type = "PeekFor" ->
         LET sub == node.kids[1]
             p == canCompilePeek(w, sub, FALSE, ko)
             l == newLabel(w)
             r == compile(G, sub, ko, saveBlock(afterNewLabel(w), l))
         IN IF p.done THEN res(p.w, noFlags, noFlags)
            ELSE after(r, res(lrestore(r.w, l, l, FALSE, r.ok.pos, r.ok.thPos),
                              r.ko, noFlags))
    [] node.type = "PeekNot" ->
         LET sub == node.kids[1]
             p == canCompilePeek(w, sub, TRUE, ko)
             ok == newLabel(w)
             r == compile(G, sub, ok, saveBlock(afterNewLabel(w), ok))
             w1 == jump(r.w, ko)
         IN IF p.done THEN res(p.w, noFlags, noFlags)
            ELSE after(r, res(IF labelUsed(w1, ok)
                                THEN restore(w1, ok, r.ko.pos, r.ko.thPos) ELSE w1,
                              r.ok, noFlags))
    [] node.type = "Query" ->
         LET qko == newLabel(w)
             qok == newLabel(afterNewLabel(w))
             w0 == afterNewLabel(afterNewLabel(w))
             r == compile(G, node.kids[1], qko, saveBlock(w0, qko))
             w1 == IF unsafe(r.w, qko) THEN jump(r.w, qok) ELSE r.w
             w2 == IF labelUsed(w1, qko) THEN restore(w1, qko, r.ko.pos, r.ko.thPos) ELSE w1
             w3 == IF unsafe(w2, qko) THEN labelSite(w2, qok) ELSE w2
         IN after(r, res(w3, noFlags, r.ok))
    [] node.type = "Star" ->
         LET again == newLabel(w)
             out == newLabel(afterNewLabel(w))
             w0 == labelSite(afterNewLabel(afterNewLabel(w)), again)
             r == compile(G, node.kids[1], out, saveBlock(w0, out))
             w1 == jump(r.w, again)
         IN after(r, res(restore(w1, out, r.ko.pos, r.ko.thPos), noFlags, r.ok))
    [] node.type = "Plus" ->
         LET again == newLabel(w)
             out == newLabel(afterNewLabel(w))
             f == compile(G, node.kids[1], ko, afterNewLabel(afterNewLabel(w)))
             w0 == labelSite(f.w, again)
             r == compile(G, node.kids[1], out, saveBlock(w0, out))
             w1 == jump(r.w, again)
         IN after(<<f, r>>,
                  res(IF labelUsed(w1, out) THEN restore(w1, out, r.ko.pos, r.ko.thPos)
                                            ELSE w1,
                      f.ko, f.ok))
    [] OTHER -> res(w, noFlags, noFlags))

\* newWriter and setDry
newWriter == [dryRun |-> FALSE, nLabels |-> 0, saveFlags |-> <<>>, used |-> {}, out |-> <<>>]
setDry(w, on) ==
  IF on THEN [w EXCEPT !.dryRun = TRUE]
  ELSE [w EXCEPT !.dryRun = FALSE, !.nLabels = 0, !.used = {}]

\* the rule-level label: ko := w.newLabel(); ko.sid = 0
ruleLabel(w) == [id |-> w.nLabels, sid |-> 0]

\* the rule is left out of the table: t.inline && count == 1 && ko.id != 0
elided(G, rule, ko) == inlined(G, rule.name) /\ ko.id # 0

\* one pass over the rule list, dry or real; yields [w, closures], closures[i]
\* being the code of rule i: [nil |-> TRUE] for a nil table entry
RECURSIVE rulePass(_, _, _, _)

\* the end of a rule's closure, r being what compileExpression returned: return
\* true, and the restore and return false at the rule label if it is used
closeRule(ko, r) ==
  LET w1 == lnPrint(r.w, [op |-> "return", value |-> TRUE])
  IN IF labelUsed(w1, ko)
       THEN lnPrint(restore(w1, ko, r.ko.pos, r.ko.thPos), [op |-> "return", value |-> FALSE])
       ELSE w1

\* on to the next rule with the closure just written
nextRule(G, i, w, closures) ==
  rulePass(G, i + 1, w, Append(closures, [nil |-> FALSE, body |-> w.out]))

rulePass(G, i, w, closures) ==
  IF i > Len(G.rlist) THEN [w |-> w, closures |-> closures]
  ELSE LET rule == G.rlist[i]
           ko == ruleLabel(w)
           w0 == [afterNewLabel(w) EXCEPT !.out = <<>>]
       IN IF rule.expression = nilNode
            THEN rulePass(G, i + 1, w, Append(closures, [nil |-> TRUE, body |-> <<>>]))
            ELSE IF elided(G, rule, ko)
              THEN rulePass(G, i + 1, afterNewLabel(w),
                            Append(closures, [nil |-> TRUE, body |-> <<>>]))
              ELSE nextRule(G, i, closeRule(ko, compileExpression(G, rule, ko, save(w0, ko))),
                            closures)

\* the real compile pass after the dry compilation: [saveFlags, closures]
realPass(G, dry) ==
  [saveFlags |-> dry.w.saveFlags,
   closures |-> rulePass(G, 1, setDry(dry.w, FALSE), <<>>).closures]

\* the dry compilation and the real compile pass
generate(G) == realPass(G, rulePass(G, 1, setDry(newWriter, TRUE), <<>>))

\* Tree.Compile from a tree the front-end has built: registration, rulesCount,
\* optimizeAlternates when the switch flag is set, the dry and the real pass.
\* B = [tree, nact, classes, offsets, switchExcl]; the result is
\* [panic, saveFlags, closures]
compileTree(B, inline, switch) ==
  LET T == compileRegister(B.tree, <<>>)
      count == rulesCountOf(T)
      O == IF switch
             THEN optimize([rlist |-> T.rlist, rules |-> T.rules,
                            classes |-> B.classes, switchExcl |-> B.switchExcl])
             ELSE [rules |-> T.rules, panic |-> FALSE]
      G == [rlist |-> [i \in 1..Len(T.rlist) |-> O.rules[T.rlist[i].name]],
            rules |-> O.rules, rulesCount |-> count, inline |-> inline,
            hasActions |-> B.nact > 0, nact |-> B.nact, classes |-> B.classes, offsets |-> B.offsets]
  IN IF O.panic THEN [panic |-> TRUE, saveFlags |-> <<>>, closures |-> <<>>]
     ELSE [panic |-> FALSE] @@ generate(G)

(***************************************************************************)
(* The emitted recognizer, run one instruction at a time.  A machine is    *)
(* the state Init() closes over: position, thunkPosition, begin, end, the  *)
(* thunk buffer, p.Min and p.Max, and the stack of rule closures being     *)
(* run, each with its pc and its numbered snapshot locals.  trace is the   *)
(* list of actions called so far.  Bookkeeping that the program does not   *)
(* have: every thunk carries the serial number of the do that wrote it,    *)
(* nser counts them, lost holds the serials written inside a rule call     *)
(* that returned false before they were run, failed the positions at which *)
(* a matcher failed, reached the positions a matcher stood at or moved to, *)
(* and commits the positions of the successful commits.                    *)
(***************************************************************************)
MaxDepth == 6          \* nested rule calls
MaxInputLen == 3       \* bytes of input

newMachine ==
  [status |-> "idle", frames |-> <<>>, position |-> 0, thunkPosition |-> 0,
   begin |-> 0, end |-> 0, thunks |-> <<>>, Min |-> 0, Max |-> 0, trace |-> <<>>,
   nser |-> 0, lost |-> {}, failed |-> {}, reached |-> {0}, commits |-> <<>>]

newFrame(id, nser) ==
  [rule |-> id, pc |-> 1, position |-> EmptyMap, thunkPosition |-> EmptyMap,
   ser0 |-> nser]

topFrame(m) == m.frames[Len(m.frames)]
goNext(m) == [m EXCEPT !.frames[Len(m.frames)].pc = @ + 1]
halt(m, status) == [m EXCEPT !.status = status]

\* goto lN: the instruction after the label
labelAt(body, id) == {k \in 1..Len(body) : body[k].op = "label" /\ body[k].id = id}
goTo(m, body, id) ==
  IF labelAt(body, id) = {} THEN halt(m, "invalid")
  ELSE [m EXCEPT !.frames[Len(m.frames)].pc = (CHOOSE k \in labelAt(body, id) : TRUE) + 1]

\* if [!]cond { goto lN } once cond has the value v
branch(m, body, ins, v) == IF v = ins.sense THEN goTo(m, body, ins.target) ELSE goNext(m)

\* the else-branch of the matchers: else if position >= p.Max { p.Max = position }
maxAfterFailStuck(position, Max) == Max
maxAfterFail(position, Max) == IF position >= Max THEN position ELSE Max

matched(m, next) ==
  [v |-> TRUE, m |-> [m EXCEPT !.position = next, !.reached = @ \cup {next}]]
unmatched(m) ==
  [v |-> FALSE, m |-> [m EXCEPT !.Max = maxAfterFail(m.position, @),
                                !.failed = @ \cup {m.position}]]

\* p.Buffer[b:e], or "" when the bounds are not in order
yytext(buffer, b, e) ==
  IF b >= 0 /\ e <= Len(buffer) /\ b <= e THEN SubSeq(buffer, b + 1, e) ELSE <<>>

\* the loop of commit: actions[thunks[i].action](s, magic) for i from 0 up
RECURSIVE runThunksDown(_, _, _, _)
runThunksDown(buffer, m, i, trace) ==
  IF i <= 0 THEN trace
  ELSE runThunksDown(buffer, m, i - 1,
         Append(trace, [action |-> m.thunks[i].action,
                        text |-> yytext(buffer, m.thunks[i].begin, m.thunks[i].end),
                        arg |-> m.thunks[i].begin, ser |-> m.thunks[i].ser]))

RECURSIVE runThunksFrom(_, _, _, _)
runThunksFrom(buffer, m, i, trace) ==
  IF i >= m.thunkPosition THEN trace
  ELSE runThunksFrom(buffer, m, i + 1,
         Append(trace, [action |-> m.thunks[i + 1].action,
                        text |-> yytext(buffer, m.thunks[i + 1].begin, m.thunks[i + 1].end),
                        arg |-> m.thunks[i + 1].begin, ser |-> m.thunks[i + 1].ser]))

runThunksReversed(buffer, m) == runThunksDown(buffer, m, m.thunkPosition, m.trace)
runThunks(buffer, m) == runThunksFrom(buffer, m, 0, m.trace)

\* commit(thunkPosition0)
commitCall(buffer, m, thunkPosition0) ==
  IF thunkPosition0 = 0
    THEN [v |-> TRUE,
          m |-> [m EXCEPT !.trace = runThunks(buffer, m), !.Min = m.position,
                          !.thunkPosition = 0, !.commits = Append(@, m.position)]]
    ELSE [v |-> FALSE, m |-> m]

\* doarg(action, arg)
doarg(m, action, arg) ==
  LET thunk == [action |-> action, begin |-> IF arg # 0 THEN arg ELSE m.begin,
                end |-> m.end, ser |-> m.nser]
  IN [m EXCEPT !.thunks = IF m.thunkPosition = Len(@) THEN Append(@, thunk)
                          ELSE [@ EXCEPT ![m.thunkPosition + 1] = thunk],
               !.thunkPosition = @ + 1, !.nser = @ + 1]

\* the value of a condition other than a rule call, and the machine after it
evalCond(buffer, m, cond) ==
  LET here == m.position
      more == here < Len(buffer)
  IN CASE cond.c = "matchDot" -> IF more THEN matched(m, here + 1) ELSE unmatched(m)
       [] cond.c = "matchChar" ->
            IF more /\ buffer[here + 1] = cond.arg THEN matched(m, here + 1) ELSE unmatched(m)
       [] cond.c = "matchString" ->
            LET next == here + Len(cond.arg)
            IN IF next <= Len(buffer) /\ SubSeq(buffer, here + 1, next) = cond.arg
                 THEN matched(m, next) ELSE unmatched(m)
       [] cond.c = "matchClass" ->
            IF more /\ buffer[here + 1] \in cond.arg THEN matched(m, here + 1) ELSE unmatched(m)
       [] cond.c = "peekDot" -> [v |-> more, m |-> m]
       [] cond.c = "peekChar" -> [v |-> more /\ buffer[here + 1] = cond.arg, m |-> m]
       [] cond.c = "pred" -> [v |-> cond.arg = "true", m |-> m]
       [] cond.c = "atEnd" -> [v |-> here = Len(buffer), m |-> m]
       [] cond.c = "commit" -> commitCall(buffer, m, topFrame(m).thunkPosition[0])

\* a condition the emitted program cannot be built with: commit(thunkPosition0)
\* in a closure that declares no thunkPosition0
unbuildable(m, cond) == cond.c = "commit" /\ 0 \notin DOMAIN topFrame(m).thunkPosition

\* return from a rule closure: Parse's result, or the value of the caller's call
serialsSince(m, f) == {s \in f.ser0..(m.nser - 1) : \A i \in 1..Len(m.trace) : m.trace[i].ser # s}
returnFrom(closures, m, v) ==
  LET f == topFrame(m)
      m1 == [m EXCEPT !.frames = SubSeq(@, 1, Len(@) - 1),
                      !.lost = IF v THEN @ ELSE @ \cup serialsSince(m, f)]
      caller == topFrame(m1)
      body == closures[caller.rule + 1].body
  IN IF Len(m.frames) = 1 THEN halt(m1, IF v THEN "accept" ELSE "reject")
     ELSE branch(m1, body, body[caller.pc], v)

\* the case of a switch that the byte selects: the first case listing it, or default
caseAt(body, ins, b) ==
  LET hits == {i \in 1..Len(ins.classes) : b \in ins.classes[i]}
      first == CHOOSE i \in hits : \A j \in hits : i <= j
  IN IF hits = {}
       THEN CHOOSE k \in 1..Len(body) : body[k].op = "default" /\ body[k].sw = ins.sw
       ELSE CHOOSE k \in 1..Len(body) :
              body[k].op = "case" /\ body[k].sw = ins.sw /\ body[k].idx = first
endOf(body, sw) == CHOOSE k \in 1..Len(body) : body[k].op = "endswitch" /\ body[k].sw = sw

\* one instruction of the closure on top of the stack
stepMachine(closures, buffer, m) ==
  LET f == topFrame(m)
      body == closures[f.rule + 1].body
      ins == body[f.pc]
      depth == Len(m.frames)
  IN CASE ins.op = "cjump" ->
            IF ins.cond.c = "call"
              THEN IF closures[ins.cond.arg + 1].nil THEN halt(m, "panic")
                   ELSE IF depth >= MaxDepth THEN halt(m, "overflow")
                   ELSE [m EXCEPT !.frames = Append(@, newFrame(ins.cond.arg, m.nser))]
              ELSE IF unbuildable(m, ins.cond) THEN halt(m, "invalid")
                   ELSE LET r == evalCond(buffer, m, ins.cond)
                        IN branch(r.m, body, ins, r.v)
       [] ins.op = "goto" -> goTo(m, body, ins.target)
       [] ins.op = "label" -> goNext(m)
       [] ins.op = "save" ->
            goNext([m EXCEPT
              !.frames[depth].position =
                 IF ins.pos THEN MapPut(@, ins.sid, m.position) ELSE @,
              !.frames[depth].thunkPosition =
                 IF ins.thPos THEN MapPut(@, ins.sid, m.thunkPosition) ELSE @])
       [] ins.op = "restore" ->
            IF \/ ins.pos /\ ins.sid \notin DOMAIN f.position
               \/ ins.thPos /\ ins.sid \notin DOMAIN f.thunkPosition
              THEN halt(m, "invalid")
              ELSE goNext([m EXCEPT
                     !.position = IF ins.pos THEN f.position[ins.sid] ELSE @,
                     !.thunkPosition = IF ins.thPos THEN f.thunkPosition[ins.sid] ELSE @])
       [] ins.op = "do" -> goNext(doarg(m, ins.action, 0))
       [] ins.op = "doarg" -> goNext(doarg(m, ins.action, ins.arg))
       [] ins.op = "begin" -> goNext([m EXCEPT !.begin = m.position])
       [] ins.op = "end" -> goNext([m EXCEPT !.end = m.position])
       [] ins.op = "switch" ->
            [m EXCEPT !.frames[depth].pc = caseAt(body, ins, buffer[m.position + 1]) + 1]
       [] ins.op \in {"case", "default"} ->
            [m EXCEPT !.frames[depth].pc = endOf(body, ins.sw) + 1]
       [] ins.op = "endswitch" -> goNext(m)
       [] ins.op = "return" -> returnFrom(closures, m, ins.value)

(***************************************************************************)
(* Properties of the analysis passes.                                      *)
(***************************************************************************)
hasDiag(kind, name) ==
  \E k \in DOMAIN diag : diag[k] = [kind |-> kind, rule |-> name]

countDiag(kind, name) ==
  Cardinality({k \in DOMAIN diag : diag[k] = [kind |-> kind, rule |-> name]})

\* the expression begins with a reference to rule n: it is Name n, or a Sequence or
\* an Alternate whose first child begins with one
RECURSIVE BeginsWith(_, _)
BeginsWith(e, n) ==
  \/ (e.type = "Name" /\ e.string = n)
  \/ (e.type \in {"Sequence", "Alternate"} /\ BeginsWith(e.kids[1], n))

\* C6: every declared rule R whose expression begins with a reference to R itself
\* (R = R alpha, alone or as the leading branch of an Alternate) gets the
\* diagnostic "possible infinite left recursion in rule 'R'".
C6_LeftRecursionDiagnosed ==
  bpc = "compiled" =>
    \A i \in 1..ndecl :
      BeginsWith(rlist[i].expression, rlist[i].name) => hasDiag("leftrec", rlist[i].name)

\* the grammar R = R . / . of scenario S3, compiled
C6_Witness ==
  /\ bpc = "compiled"
  /\ rlist[1].expression =
       newList("Alternate", <<newList("Sequence", <<newName("A", ""), dot>>), dot>>)
  /\ hasDiag("leftrec", "A")

\* the names a subtree references
RECURSIVE NamesIn(_)
NamesIn(e) ==
  IF e.type = "Name" THEN {e.string}
  ELSE IF e.type \in ListTypes
    THEN UNION {NamesIn(e.kids[i]) : i \in 1..Len(e.kids)}
    ELSE {}

declaredNames == {rlist[i].name : i \in 1..ndecl}
referencedNames == UNION {NamesIn(rlist[i].expression) : i \in 1..ndecl}

\* the declared rules reachable from the first declared rule through Name references
RECURSIVE ReachFrom(_, _)
ReachFrom(S, k) ==
  IF k = 0 THEN S
  ELSE ReachFrom(S \cup UNION {NamesIn(rules[n].expression) : n \in S}, k - 1)

reachableNames == ReachFrom({rlist[1].name}, Cardinality(RuleNames))

\* C8: "defined but not used" is emitted once for each declared rule that is not
\* reachable from the first declared rule and for no other rule; "used but not
\* defined" once for each referenced name that was never declared and for no
\* other rule.
C8_UnusedUndefinedExact ==
  bpc = "compiled" =>
    \A n \in RuleNames :
      /\ countDiag("unused", n) =
           (IF n \in declaredNames /\ n \notin reachableNames THEN 1 ELSE 0)
      /\ countDiag("undefined", n) =
           (IF n \in referencedNames /\ n \notin declaredNames THEN 1 ELSE 0)

(***************************************************************************)
(* Class specification: build a class with add, print it with String, and  *)
(* hand the text to AddClass.                                              *)
(***************************************************************************)
ClassBytes == {ChNl, ChMinus, ChCaret, ChA, ChB, ChC, ChN, 200, 255}

ClassInit ==
  /\ BuildIdle
  /\ ParseIdle
  /\ AuxIdle
  /\ cc = {}
  /\ cstr = <<>>
  /\ cres = NoResult
  /\ cpc = "build"
  /\ rj = 0

\* characterClass.add
ClassAdd ==
  /\ cpc = "build"
  /\ Cardinality(cc) < MaxClassSize
  /\ \E b \in ClassBytes \ cc : cc' = cc \cup {b}
  /\ UNCHANGED <<cstr, cres, cpc, rj>>
  /\ UNCHANGED buildVars
  /\ UNCHANGED parseVars
  /\ UNCHANGED auxVars

\* characterClass.String
ClassPrint ==
  /\ cpc = "build"
  /\ cstr' = classString(cc)
  /\ cpc' = "printed"
  /\ UNCHANGED <<cc, cres, rj>>
  /\ UNCHANGED buildVars
  /\ UNCHANGED parseVars
  /\ UNCHANGED auxVars

\* Tree.AddClass on the printed text
ClassParse ==
  /\ cpc = "printed"
  /\ cres' = addClassParse(cstr)
  /\ cpc' = "parsed"
  /\ UNCHANGED <<cc, cstr, rj>>
  /\ UNCHANGED buildVars
  /\ UNCHANGED parseVars
  /\ UNCHANGED auxVars

ClassNext == ClassAdd \/ ClassPrint \/ ClassParse

SpecClass == ClassInit /\ [][ClassNext]_vars

\* C7: parsing the text printed by String with AddClass gives back the class,
\* bit for bit, for every class with at least one member (the classes AddClass
\* can resolve).
C7_ClassRoundTrip ==
  (cpc = "parsed" /\ cc # {}) => (cres.outcome = "ok" /\ cres.set = cc)

(***************************************************************************)
(* The parse specification: the front-end has built one grammar of a       *)
(* catalog, Compile emits the recognizer for each setting of the inline    *)
(* and switch flags, and the emitted recognizers parse one input.          *)
(***************************************************************************)
character(c) == [type |-> "Character", string |-> <<c>>]
stringToken(text) == [type |-> "String", string |-> text]
classToken0(text) == [type |-> "Class", string |-> text]
predicate(text) == [type |-> "Predicate", string |-> text]
action(id) == [type |-> "Action", id |-> id]
sequence(kids) == newList("Sequence", kids)
alternate(kids) == newList("Alternate", kids)
definedRule(name, id, expression, hasActions, variables) ==
  [type |-> "Rule", name |-> name, id |-> id, expression |-> expression,
   hasActions |-> hasActions, variables |-> variables]

\* the tree after the front-end's calls: the rules in declaration order, and
\* the rules map with the zero rule AddName leaves under every name it is given
builtTree(l) ==
  [ruleId |-> Len(l), rlist |-> l,
   rules |-> [n \in UNION {NamesIn(l[i].expression) : i \in 1..Len(l)} |-> newRule("", 0)]]

built(l, nact, classTexts, offsets) ==
  [tree |-> builtTree(l), nact |-> nact,
   classes |-> [t \in classTexts |-> addClassParse(t).set],
   offsets |-> offsets, switchExcl |-> {}]

\* Start = (Q / 'a' 'c') commit    Q = R 'b'    R = S    S = 'a' {0}
gBacktrack ==
  built(<<definedRule("Start", 0,
            sequence(<<alternate(<<newName("Q", ""),
                                   sequence(<<character(ChA), character(ChC)>>)>>),
                       commit>>), FALSE, {}),
          definedRule("Q", 1, sequence(<<newName("R", ""), character(ChB)>>), FALSE, {}),
          definedRule("R", 2, newName("S", ""), FALSE, {}),
          definedRule("S", 3, sequence(<<character(ChA), action(0)>>), TRUE, {})>>,
        1, {}, EmptyMap)

\* S = 'a' R    R = 'a' / 'b' / 'c'    T = R
gSwitch ==
  built(<<definedRule("S", 0, sequence(<<character(ChA), newName("R", "")>>), FALSE, {}),
          definedRule("R", 1,
            alternate(<<character(ChA), character(ChB), character(ChC)>>), FALSE, {}),
          definedRule("T", 2, newName("R", ""), FALSE, {})>>,
        0, {}, EmptyMap)

\* S = 'b' / 'a'* / 'c'
gStar ==
  built(<<definedRule("S", 0,
            alternate(<<character(ChB), newList("Star", <<character(ChA)>>),
                        character(ChC)>>), FALSE, {})>>,
        0, {}, EmptyMap)

\* S = 'a' 'b' / 'a' / 'b' / 'c'
gOrdered ==
  built(<<definedRule("S", 0,
            alternate(<<sequence(<<character(ChA), character(ChB)>>),
                        character(ChA), character(ChB), character(ChC)>>), FALSE, {})>>,
        0, {}, EmptyMap)

\* Start = {0} R    R = 'a' commit
gInline ==
  built(<<definedRule("Start", 0, sequence(<<action(0), newName("R", "")>>), TRUE, {}),
          definedRule("R", 1, sequence(<<character(ChA), commit>>), FALSE, {})>>,
        1, {}, EmptyMap)

\* S = 'a' {0} 'b'
gPlain ==
  built(<<definedRule("S", 0,
            sequence(<<character(ChA), action(0), character(ChB)>>), TRUE, {})>>,
        1, {}, EmptyMap)

\* S = < [a-b]+ > {0} {1} commit 'c'? {2}
gCapture ==
  built(<<definedRule("S", 0,
            sequence(<<begin, newList("Plus", <<classToken0(<<ChA, ChMinus, ChB>>)>>), end,
                       action(0), action(1), commit,
                       newList("Query", <<character(ChC)>>), action(2)>>), TRUE, {})>>,
        3, {<<ChA, ChMinus, ChB>>}, EmptyMap)

\* S = &('a' .) !"ab" T* ('c' {0})? &{true} !.    T = 'a' / 'b' !'c' / &{false} .
gPeek ==
  built(<<definedRule("S", 0,
            sequence(<<newList("PeekFor", <<sequence(<<character(ChA), dot>>)>>),
                       newList("PeekNot", <<stringToken(<<ChA, ChB>>)>>),
                       newList("Star", <<newName("T", "")>>),
                       newList("Query", <<sequence(<<character(ChC), action(0)>>)>>),
                       predicate("true"),
                       newList("PeekNot", <<dot>>)>>), TRUE, {}),
          definedRule("T", 1,
            alternate(<<character(ChA),
                        sequence(<<character(ChB), newList("PeekNot", <<character(ChC)>>)>>),
                        sequence(<<predicate("false"), dot>>)>>), FALSE, {})>>,
        1, {}, EmptyMap)

\* Start = (v:R {0} commit)+    R = 'a' {1} / 'b'
gVariable ==
  built(<<definedRule("Start", 0,
            newList("Plus", <<sequence(<<newName("R", "v"), action(0), commit>>)>>),
            TRUE, {"v"}),
          definedRule("R", 1,
            alternate(<<sequence(<<character(ChA), action(1)>>), character(ChB)>>),
            TRUE, {})>>,
        2, {}, [x \in {"v"} |-> 0 - 1])

\* R = 'a' X / 'b' Y / 'c' Z    X = 'a'    Y = 'b'    Z = 'c'
gThree ==
  built(<<definedRule("R", 0,
            alternate(<<sequence(<<character(ChA), newName("X", "")>>),
                        sequence(<<character(ChB), newName("Y", "")>>),
                        sequence(<<character(ChC), newName("Z", "")>>)>>), FALSE, {}),
          definedRule("X", 1, character(ChA), FALSE, {}),
          definedRule("Y", 2, character(ChB), FALSE, {}),
          definedRule("Z", 3, character(ChC), FALSE, {})>>,
        0, {}, EmptyMap)

\* S = 'a' / 'b' / 'c' / ""
gEmptyLast ==
  built(<<definedRule("S", 0,
            alternate(<<character(ChA), character(ChB), character(ChC),
                        stringToken(<<>>)>>), FALSE, {})>>,
        0, {}, EmptyMap)

\* S = 'a' / &{true}
gPredicateBranch ==
  built(<<definedRule("S", 0, alternate(<<character(ChA), predicate("true")>>), FALSE, {})>>,
        0, {}, EmptyMap)

\* %switchexcl { R }    S = 'a' / R    R = 'b'
gExcluded ==
  [built(<<definedRule("S", 0, alternate(<<character(ChA), newName("R", "")>>), FALSE, {}),
           definedRule("R", 1, character(ChB), FALSE, {})>>,
         0, {}, EmptyMap) EXCEPT !.switchExcl = {"R"}]

\* S = 'a' commit?
gCommitQuery ==
  built(<<definedRule("S", 0,
            sequence(<<character(ChA), newList("Query", <<commit>>)>>), FALSE, {})>>,
        0, {}, EmptyMap)

\* S = 'a' commit*
gCommitStar ==
  built(<<definedRule("S", 0,
            sequence(<<character(ChA), newList("Star", <<commit>>)>>), FALSE, {})>>,
        0, {}, EmptyMap)

\* S = 'a' !commit
gCommitPeekNot ==
  built(<<definedRule("S", 0,
            sequence(<<character(ChA), newList("PeekNot", <<commit>>)>>), FALSE, {})>>,
        0, {}, EmptyMap)

\* S = 'a' &commit 'b'
gCommitPeekFor ==
  built(<<definedRule("S", 0,
            sequence(<<character(ChA), newList("PeekFor", <<commit>>), character(ChB)>>),
            FALSE, {})>>,
        0, {}, EmptyMap)

Grammars ==
  <<gBacktrack, gSwitch, gStar, gOrdered, gInline, gPlain, gCapture, gPeek, gVariable,
    gThree, gEmptyLast, gPredicateBranch, gExcluded,
    gCommitQuery, gCommitStar, gCommitPeekNot, gCommitPeekFor>>

Variants == [inline : BOOLEAN, switch : BOOLEAN]
variant(inline, switch) == [inline |-> inline, switch |-> switch]

InputBytes == {ChA, ChB, ChC}
Inputs == UNION {[1..n -> InputBytes] : n \in 0..MaxInputLen}

ParseInit ==
  /\ ClassIdle
  /\ BuildIdle
  /\ AuxIdle
  /\ gram \in 1..Len(Grammars)
  /\ code = <<>>
  /\ Buffer = <<>>
  /\ ms = [v \in Variants |-> newMachine]
  /\ ppc = "built"

\* Tree.Compile, with each setting of the two flags
CompileGrammar ==
  /\ ppc = "built"
  /\ code' = [v \in Variants |-> compileTree(Grammars[gram], v.inline, v.switch)]
  /\ ppc' = "compiled"
  /\ UNCHANGED <<gram, Buffer, ms>>
  /\ UNCHANGED classVars
  /\ UNCHANGED buildVars
  /\ UNCHANGED auxVars

\* Init() and ResetBuffer(s) of each emitted parser
ResetBuffer ==
  /\ ppc = "compiled"
  /\ \E s \in Inputs : Buffer' = s
  /\ ms' = [v \in Variants |->
              [ms[v] EXCEPT !.thunkPosition = 0, !.position = 0, !.Min = 0, !.Max = 0]]
  /\ ppc' = "reset"
  /\ UNCHANGED <<gram, code>>
  /\ UNCHANGED classVars
  /\ UNCHANGED buildVars
  /\ UNCHANGED auxVars

\* Parse(0): the call of p.rules[0]
Parse ==
  /\ ppc = "reset"
  /\ ms' = [v \in Variants |->
              IF code[v].panic THEN halt(ms[v], "nocode")
              ELSE [ms[v] EXCEPT !.status = "run", !.frames = <<newFrame(0, 0)>>]]
  /\ ppc' = "running"
  /\ UNCHANGED <<gram, code, Buffer>>
  /\ UNCHANGED classVars
  /\ UNCHANGED buildVars
  /\ UNCHANGED auxVars

\* one instruction of every recognizer still running
Step ==
  /\ ppc = "running"
  /\ \E v \in Variants : ms[v].status = "run"
  /\ ms' = [v \in Variants |->
              IF ms[v].status = "run"
                THEN stepMachine(code[v].closures, Buffer, ms[v])
                ELSE ms[v]]
  /\ UNCHANGED <<gram, code, Buffer, ppc>>
  /\ UNCHANGED classVars
  /\ UNCHANGED buildVars
  /\ UNCHANGED auxVars

ParseNext == CompileGrammar \/ ResetBuffer \/ Parse \/ Step

SpecParse == ParseInit /\ [][ParseNext]_vars

(***************************************************************************)
(* Properties of the emitted recognizer.                                   *)
(***************************************************************************)
ended(m) == m.status \in {"accept", "reject"}

\* the instruction a running recognizer is about to execute
currentIns(v) ==
  code[v].closures[topFrame(ms[v]).rule + 1].body[topFrame(ms[v]).pc]

\* the call actions[thunk.action](Buffer[begin:end], begin) as the trace records it
applied(buffer, thunk) ==
  [action |-> thunk.action, text |-> yytext(buffer, thunk.begin, thunk.end),
   arg |-> thunk.begin, ser |-> thunk.ser]

\* the calls of a trace without the serial numbers
calls(trace) ==
  [i \in 1..Len(trace) |->
     [action |-> trace[i].action, text |-> trace[i].text, arg |-> trace[i].arg]]

furthest(S) == CHOOSE x \in S : \A y \in S : y <= x

\* C1: an action deferred by do(a) inside a rule attempt that fails before any
\* commit is reached is never executed: no commit passes to actions[...] a thunk
\* written inside a rule call that returned false.
C1_AbortedActionsNeverRun ==
  \A v \in Variants :
    \A i \in 1..Len(ms[v].trace) : ms[v].trace[i].ser \notin ms[v].lost

\* C2: thunks are applied by a successful commit and by nothing else: a commit
\* whose thunkPosition0 is 0 calls actions[...] for thunks[0..thunkPosition) in
\* buffer order, each with its captured Buffer[begin:end] text and begin
\* argument; every other step of the parse, the return of Parse(ruleId)
\* included, leaves the list of executed actions as it was.
C2_OnlyCommitAppliesThunks ==
  [][\A v \in Variants :
       (ppc = "running" /\ ms[v].status = "run") =>
         ms'[v].trace =
           IF /\ currentIns(v).op = "cjump"
              /\ currentIns(v).cond.c = "commit"
              /\ 0 \in DOMAIN topFrame(ms[v]).thunkPosition
              /\ topFrame(ms[v]).thunkPosition[0] = 0
             THEN ms[v].trace \o
                    [i \in 1..ms[v].thunkPosition |-> applied(Buffer, ms[v].thunks[i])]
             ELSE ms[v].trace]_vars

\* C2 as stated: when Parse(ruleId) succeeds, every thunk buffered since the last
\* commit (or since the start) has been applied, in buffer order, each with its
\* captured text and begin argument.
C2_SuccessAppliesBuffered ==
  \A v \in Variants :
    ms[v].status = "accept" =>
      LET n == ms[v].thunkPosition
          k == Len(ms[v].trace)
      IN /\ k >= n
         /\ \A i \in 1..n : ms[v].trace[k - n + i] = applied(Buffer, ms[v].thunks[i])

\* S = < [a-b]+ > {0} {1} commit 'c'? {2} has accepted: the commit applied
\* actions 0 and 1 in that order with the captured text, and the thunk of action
\* 2, buffered after the commit, is still in the buffer
C2_Witness ==
  /\ gram = 7
  /\ ppc = "running"
  /\ \E v \in Variants :
       /\ ms[v].status = "accept"
       /\ Len(ms[v].trace) = 2
       /\ ms[v].trace[1].action = 0
       /\ ms[v].trace[2].action = 1
       /\ ms[v].trace[1].text # <<>>
       /\ ms[v].thunkPosition = 1

\* C3: the recognizer compiled with switch=true accepts iff the one compiled with
\* switch=false accepts, and both end with the same Min and Max.
C3_SwitchEquivalent ==
  \A i \in BOOLEAN :
    LET on == ms[variant(i, TRUE)]
        off == ms[variant(i, FALSE)]
    IN (ended(on) /\ ended(off)) =>
         /\ on.status = off.status
         /\ on.Min = off.Min
         /\ on.Max = off.Max

\* C4: the recognizer compiled with inline=true has the same accept/reject
\* result, the same Min and Max, and the same sequence of executed actions as the
\* one compiled with inline=false.
C4_InlineEquivalent ==
  \A s \in BOOLEAN :
    LET on == ms[variant(TRUE, s)]
        off == ms[variant(FALSE, s)]
    IN (ended(on) /\ ended(off)) =>
         /\ on.status = off.status
         /\ on.Min = off.Min
         /\ on.Max = off.Max
         /\ calls(on.trace) = calls(off.trace)

\* C5: whenever the real pass emits a restore of position and/or thunkPosition
\* from a label's numbered snapshot, it has emitted, earlier in the same rule
\* closure, a save of that component into that snapshot, and the dry-pass
\* saveFlags bit for that label and component is set.
C5_SaveBeforeRestore ==
  ppc # "built" =>
    \A v \in Variants :
      ~code[v].panic =>
        \A c \in 1..Len(code[v].closures) :
          LET body == code[v].closures[c].body
          IN \A k \in 1..Len(body) :
               body[k].op = "restore" =>
                 /\ \E j \in 1..(k - 1) :
                      /\ body[j].op = "save"
                      /\ body[j].id = body[k].id
                      /\ body[j].sid = body[k].sid
                      /\ body[k].pos => body[j].pos
                      /\ body[k].thPos => body[j].thPos
                 /\ body[k].pos => code[v].saveFlags[body[k].id + 1].pos
                 /\ body[k].thPos => code[v].saveFlags[body[k].id + 1].thPos

\* a compiled grammar with a closure that restores both position and
\* thunkPosition, and one that restores position alone
C5_Witness ==
  /\ ppc = "compiled"
  /\ \E v \in Variants :
       /\ ~code[v].panic
       /\ \E c \in 1..Len(code[v].closures) :
            LET body == code[v].closures[c].body
            IN /\ \E k \in 1..Len(body) :
                    body[k].op = "restore" /\ body[k].pos /\ body[k].thPos
               /\ \E k \in 1..Len(body) :
                    body[k].op = "restore" /\ body[k].pos /\ ~body[k].thPos

\* C10: at every point of a parse, Max is the furthest position at which a
\* matcher (matchDot, matchChar, matchString, matchClass) has failed, 0 if none
\* has; Min is the position at which the most recent commit succeeded, 0 if
\* none has; and Max never decreases during the parse.
C10_MaxIsFurthestFailure ==
  /\ [](\A v \in Variants :
          /\ ms[v].Max = furthest(ms[v].failed \cup {0})
          /\ ms[v].Min = IF ms[v].commits = <<>> THEN 0
                         ELSE ms[v].commits[Len(ms[v].commits)])
  /\ [][\A v \in Variants : ms'[v].Max >= ms[v].Max]_vars

\* C10 as stated: Max is the furthest position reached by any match attempt so
\* far, successful or failed, and Min the position of the most recent commit.
C10_MaxIsFurthestReached ==
  \A v \in Variants :
    /\ ms[v].Max = furthest(ms[v].reached \cup ms[v].failed)
    /\ ms[v].Min = IF ms[v].commits = <<>> THEN 0
                   ELSE ms[v].commits[Len(ms[v].commits)]

\* S = < [a-b]+ > {0} {1} commit 'c'? {2} on "abc": the class fails at 2, the
\* commit succeeds at 2, and 'c' then matches up to 3
C10_Witness ==
  /\ gram = 7
  /\ \E v \in Variants :
       /\ ms[v].status = "accept"
       /\ ms[v].position = 3
       /\ ms[v].Max = 2
       /\ ms[v].Min = 2
       /\ ms[v].commits = <<2>>

(***************************************************************************)
(* The directive specification: New, then calls of Define.                 *)
(***************************************************************************)
\* the keys Define is called with: the directives the front-end knows, and one
\* it does not
DirectiveNames == {"package", "Peg", "userstate", "yystype", "noexport"}
DefineNames == DirectiveNames \cup {"other"}
DefineTexts == {"", "1", "T"}

\* the defines map New builds
newDefines ==
  [k \in {"package", "Peg", "userstate", "yystype"} |->
     CASE k = "package" -> ""
       [] k = "Peg" -> "yyParser"
       [] k = "userstate" -> ""
       [] k = "yystype" -> "yyStype"]

\* t.defines[name]: the zero string for a key the map does not hold
lookup(d, name) == IF name \in DOMAIN d THEN d[name] ELSE ""

\* Tree.Define
define(d, name, text) ==
  IF name \in DOMAIN d THEN [d EXCEPT ![name] = text] ELSE d

DefineInit ==
  /\ ClassIdle
  /\ BuildIdle
  /\ ParseIdle
  /\ OffsetIdle
  /\ defines = newDefines
  /\ called = NoCall
  /\ xpc = "define"
  /\ ThunkIdle
  /\ JoinIdle
  /\ ListIdle

Define ==
  /\ xpc = "define"
  /\ \E name \in DefineNames, text \in DefineTexts :
       /\ defines' = define(defines, name, text)
       /\ called' = [name |-> name, text |-> text]
  /\ UNCHANGED <<xpc, thunkVars, joinVars, listVars>>
  /\ UNCHANGED classVars
  /\ UNCHANGED buildVars
  /\ UNCHANGED parseVars
  /\ UNCHANGED offsetVars

DefineNext == Define

SpecDefine == DefineInit /\ [][DefineNext]_vars

\* C11: Define(k, v) stores v for each of the directive names package, Peg,
\* userstate, yystype and noexport (a later lookup of k yields v), and for any
\* other key leaves the whole directive mapping unchanged.
C11_DefineStoresDirectives ==
  [][IF called'.name \in DirectiveNames
       THEN lookup(defines', called'.name) = called'.text
       ELSE defines' = defines]_vars

(***************************************************************************)
(* The class-text specification: the front-end hands AddClass the text     *)
(* between the brackets of a class literal,                                *)
(*   class = '[' < ( !']' range )* > ']'     range = char '-' char | char  *)
(*   char  = '\\' [abefnrtv'"\[\]\\] | ... | !'\\' .                       *)
(***************************************************************************)
\* the chars the text is made of: plain bytes and escape pairs
TextChars ==
  {<<ChMinus>>, <<ChCaret>>, <<ChA>>, <<ChC>>, <<ChN>>,
   <<ChBackslash, ChN>>, <<ChBackslash, ChA>>, <<ChBackslash, ChBackslash>>}

ClassTextInit ==
  /\ BuildIdle
  /\ ParseIdle
  /\ AuxIdle
  /\ cc = {}
  /\ cstr = <<>>
  /\ cres = NoResult
  /\ cpc = "text"
  /\ rj = 0

\* the front-end matches one more char of the class literal
TextAppend ==
  /\ cpc = "text"
  /\ \E ch \in TextChars :
       /\ Len(cstr) + Len(ch) <= MaxTextLen
       /\ cstr' = cstr \o ch
  /\ UNCHANGED <<cc, cres, cpc, rj>>
  /\ UNCHANGED buildVars
  /\ UNCHANGED parseVars
  /\ UNCHANGED auxVars

\* Tree.AddClass on the matched text
TextParse ==
  /\ cpc = "text"
  /\ cres' = addClassParse(cstr)
  /\ cpc' = "textparsed"
  /\ UNCHANGED <<cc, cstr, rj>>
  /\ UNCHANGED buildVars
  /\ UNCHANGED parseVars
  /\ UNCHANGED auxVars

ClassTextNext == TextAppend \/ TextParse

SpecClassText == ClassTextInit /\ [][ClassTextNext]_vars

\* what a class text denotes, read as the front-end reads it: a char is an
\* escape pair or a plain byte, a range is char '-' char (tried first)
charLen(text, i) == IF text[i] = ChBackslash THEN 2 ELSE 1
charValue(text, i) == IF text[i] = ChBackslash THEN unescape(text[i + 1]) ELSE text[i]

RECURSIVE denotedFrom(_, _)
denotedFrom(text, i) ==
  IF i > Len(text) THEN {}
  ELSE LET j == i + charLen(text, i)
       IN IF j < Len(text) /\ text[j] = ChMinus
            THEN {b \in Byte : charValue(text, i) <= b /\ b <= charValue(text, j + 1)}
                   \cup denotedFrom(text, j + 1 + charLen(text, j + 1))
            ELSE {charValue(text, i)} \cup denotedFrom(text, j)

denotes(text) ==
  IF Len(text) > 0 /\ text[1] = ChCaret
    THEN Byte \ denotedFrom(text, 2)
    ELSE denotedFrom(text, 1)

\* the text, after an optional leading '^', has at least one char
hasElement(text) == Len(text) > (IF Len(text) > 0 /\ text[1] = ChCaret THEN 1 ELSE 0)

\* C12: for every class string the front-end accepts (with at least one
\* element), the bitmap AddClass builds holds exactly the bytes the string
\* denotes: plain bytes, the decoded control byte of \a \b \f \n \r \t \v and
\* not the escape's letter, the escaped byte of other escapes, every byte of an
\* inclusive range, complemented iff the string starts with '^'; also when the
\* last element is an escape sequence.
C12_ClassDenotation ==
  (cpc = "textparsed" /\ hasElement(cstr)) =>
    (cres.outcome = "ok" /\ cres.set = denotes(cstr))

(***************************************************************************)
(* The thunk specification: the front-end adds actions, Compile emits the  *)
(* thunk buffer with an action field of uint<bits>.                        *)
(***************************************************************************)
\* the number of actions the behaviour starts from; AddAction takes it from there
ActionCounts == {0, 120, 250, 32760, 65530, 1000000}

\* for length := len(t.Actions); length != 0; length >>= 1 { bits++ }
RECURSIVE bitLength(_)
bitLength(length) == IF length = 0 THEN 0 ELSE 1 + bitLength(length \div 2)

\* the switch that rounds bits up
roundBitsInclusive(b) ==
  CASE b <= 8 -> 8
    [] b <= 16 -> 16
    [] b <= 32 -> 32
    [] b <= 64 -> 64
    [] OTHER -> b
roundBits(b) ==
  CASE b < 8 -> 8
    [] b < 16 -> 16
    [] b < 32 -> 32
    [] b < 64 -> 64
    [] OTHER -> b

thunkBits(nact) == roundBits(bitLength(nact))

ThunkInit ==
  /\ ClassIdle
  /\ BuildIdle
  /\ ParseIdle
  /\ OffsetIdle
  /\ DefineIdle
  /\ JoinIdle
  /\ ListIdle
  /\ xpc = "actions"
  /\ nactions \in ActionCounts
  /\ bits = 0

\* Tree.AddAction: one more action
ThunkAddAction ==
  /\ xpc = "actions"
  /\ \E first \in ActionCounts :
       /\ first <= nactions
       /\ nactions < first + MaxAdded
  /\ nactions' = nactions + 1
  /\ UNCHANGED <<xpc, bits, defineVars, joinVars, listVars>>
  /\ UNCHANGED classVars
  /\ UNCHANGED buildVars
  /\ UNCHANGED parseVars
  /\ UNCHANGED offsetVars

\* Compile, hasActions: the width of the action field
ThunkEmit ==
  /\ xpc = "actions"
  /\ nactions > 0
  /\ bits' = thunkBits(nactions)
  /\ xpc' = "emitted"
  /\ UNCHANGED <<nactions, defineVars, joinVars, listVars>>
  /\ UNCHANGED classVars
  /\ UNCHANGED buildVars
  /\ UNCHANGED parseVars
  /\ UNCHANGED offsetVars

ThunkNext == ThunkAddAction \/ ThunkEmit

SpecThunk == ThunkInit /\ [][ThunkNext]_vars

Widths == {8, 16, 32, 64}
\* n < 2^e for the counts of this model, which are below 2^31
below(n, e) == e >= 31 \/ n < 2^e

\* C14 as stated: the width is the smallest of 8, 16, 32, 64 such that
\* len(actions) fits in an unsigned integer of that width (8 up to 255 actions).
C14_SmallestUnsignedWidth ==
  xpc = "emitted" =>
    /\ bits \in Widths
    /\ below(nactions, bits)
    /\ \A w \in Widths : w < bits => ~below(nactions, w)

\* C14: for every number A >= 1 of actions the width of the action field is
\* the smallest W of 8, 16, 32, 64 that is greater than the bit length of A,
\* that is, the smallest W with A < 2^(W-1): 8 up to 127 actions, 16 from 128.
C14_SmallestWidthAboveBitLength ==
  xpc = "emitted" =>
    /\ bits \in Widths
    /\ below(nactions, bits - 1)
    /\ \A w \in Widths : w < bits => ~below(nactions, w - 1)

C14_Witness == xpc = "emitted" /\ nactions = 128 /\ bits = 16

(***************************************************************************)
(* The join specification: Compile hands join its three analysis passes;   *)
(* join starts one goroutine per task, each runs its task and sends 1 on   *)
(* the buffered channel done, and join receives until d reaches length.    *)
(* A task is the list of its visits; a visit reads and writes locations:   *)
(* "ast" (the nodes), "rules" (t.rules), "list" (the rule list), "counts", *)
(* "rulesCount", "stderr" and the ruleReached slice of a pass.             *)
(***************************************************************************)
visit(r, w) == [reads |-> r, writes |-> w]

\* ruleReached := make([]bool, len(t.rules)) inside the task's closure
ruleReachedShared(pass) == "ruleReached"
ruleReached(pass) ==
  IF pass = "countRules" THEN "ruleReached of countRules"
  ELSE "ruleReached of checkRecursion"

\* countTypes: counts[t]++ at every node; names are not followed
RECURSIVE countTypesVisits(_)
countTypesVisits(node) ==
  <<visit({"ast", "counts"}, {"counts"})>> \o
  (CASE node.type = "Rule" -> countTypesVisits(node.expression)
     [] node.type \in {"Alternate", "UnorderedAlternate", "Sequence"} ->
          LET RECURSIVE each(_)
              each(i) == IF i > Len(node.kids) THEN <<>>
                         ELSE countTypesVisits(node.kids[i]) \o each(i + 1)
          IN each(1)
     [] node.type \in {"PeekFor", "PeekNot", "Query", "Star", "Plus"} ->
          countTypesVisits(node.kids[1])
     [] OTHER -> <<>>)

\* for _, rule := range t.rules { countTypes(rule) }
RECURSIVE countTypesTask(_, _)
countTypesTask(T, order) ==
  IF order = <<>> THEN <<>>
  ELSE <<visit({"rules"}, {})>> \o countTypesVisits(T.rules[Head(order)])
         \o countTypesTask(T, Tail(order))

\* countRules; st = [reached, log]
RECURSIVE countRulesVisits(_, _, _)
countRulesVisits(T, node, st) ==
  CASE node.type = "Rule" ->
         LET mine == ruleReached("countRules")
         IN IF node.id \in st.reached
              THEN [st EXCEPT !.log = Append(@, visit({"ast", "rulesCount", mine},
                                                      {"rulesCount"}))]
              ELSE countRulesVisits(T, node.expression,
                     [reached |-> st.reached \cup {node.id},
                      log |-> Append(st.log, visit({"ast", "rulesCount", mine},
                                                   {"rulesCount", mine}))])
    [] node.type = "Name" ->
         countRulesVisits(T, T.rules[node.string],
                          [st EXCEPT !.log = Append(@, visit({"ast", "rules"}, {}))])
    [] node.type \in {"Alternate", "UnorderedAlternate", "Sequence"} ->
         LET RECURSIVE each(_, _)
             each(i, s1) ==
               IF i > Len(node.kids) THEN s1
               ELSE each(i + 1, countRulesVisits(T, node.kids[i], s1))
         IN each(1, [st EXCEPT !.log = Append(@, visit({"ast"}, {}))])
    [] node.type \in {"PeekFor", "PeekNot", "Query", "Star", "Plus"} ->
         countRulesVisits(T, node.kids[1],
                          [st EXCEPT !.log = Append(@, visit({"ast"}, {}))])
    [] OTHER -> [st EXCEPT !.log = Append(@, visit({"ast"}, {}))]

\* the pass starts from the first rule of the list
countRulesTask(T) ==
  countRulesVisits(T, T.rlist[1],
                   [reached |-> {}, log |-> <<visit({"list"}, {})>>]).log

\* checkRecursion; st = [reached, log]; yields [consumes, st]
RECURSIVE checkRecursionVisits(_, _, _)
checkRecursionVisits(T, node, st) ==
  CASE node.type = "Rule" ->
         LET mine == ruleReached("checkRecursion")
         IN IF node.id \in st.reached
              THEN [consumes |-> FALSE,
                    st |-> [st EXCEPT !.log = Append(@, visit({"ast", mine}, {"stderr"}))]]
              ELSE LET r == checkRecursionVisits(T, node.expression,
                              [reached |-> st.reached \cup {node.id},
                               log |-> Append(st.log, visit({"ast", mine}, {mine}))])
                   IN [consumes |-> r.consumes,
                       st |-> [reached |-> r.st.reached \ {node.id},
                               log |-> Append(r.st.log, visit({}, {mine}))]]
    [] node.type = "Alternate" ->
         LET RECURSIVE each(_, _)
             each(i, s1) ==
               IF i > Len(node.kids) THEN [consumes |-> TRUE, st |-> s1]
               ELSE LET r == checkRecursionVisits(T, node.kids[i], s1)
                    IN IF ~r.consumes THEN [consumes |-> FALSE, st |-> r.st]
                       ELSE each(i + 1, r.st)
         IN each(1, [st EXCEPT !.log = Append(@, visit({"ast"}, {}))])
    [] node.type = "Sequence" ->
         LET RECURSIVE each(_, _)
             each(i, s1) ==
               IF i > Len(node.kids) THEN [consumes |-> FALSE, st |-> s1]
               ELSE LET r == checkRecursionVisits(T, node.kids[i], s1)
                    IN IF r.consumes THEN [consumes |-> TRUE, st |-> r.st]
                       ELSE each(i + 1, r.st)
         IN each(1, [st EXCEPT !.log = Append(@, visit({"ast"}, {}))])
    [] node.type = "Name" ->
         checkRecursionVisits(T, T.rules[node.string],
                              [st EXCEPT !.log = Append(@, visit({"ast", "rules"}, {}))])
    [] node.type = "Plus" ->
         checkRecursionVisits(T, node.kids[1],
                              [st EXCEPT !.log = Append(@, visit({"ast"}, {}))])
    [] node.type \in {"Character", "String"} ->
         [consumes |-> Len(node.string) > 0,
          st |-> [st EXCEPT !.log = Append(@, visit({"ast"}, {}))]]
    [] node.type \in {"Dot", "Class"} ->
         [consumes |-> TRUE, st |-> [st EXCEPT !.log = Append(@, visit({"ast"}, {}))]]
    [] OTHER -> [consumes |-> FALSE,
                 st |-> [st EXCEPT !.log = Append(@, visit({"ast"}, {}))]]

\* for _, rule := range t.rules { checkRecursion(rule) }
RECURSIVE checkRecursionTask(_, _, _)
checkRecursionTask(T, order, log) ==
  IF order = <<>> THEN log
  ELSE checkRecursionTask(T, Tail(order),
         checkRecursionVisits(T, T.rules[Head(order)],
                              [reached |-> {}, log |-> Append(log, visit({"rules"}, {}))]).st.log)

\* A = A 'a' / 'b'    B = A
gLeftRecursive ==
  built(<<definedRule("A", 0,
            alternate(<<sequence(<<newName("A", ""), character(ChA)>>), character(ChB)>>),
            FALSE, {}),
          definedRule("B", 1, newName("A", ""), FALSE, {})>>,
        0, {}, EmptyMap)

\* the trees the passes run on
JoinTrees ==
  {compileRegister(B.tree, <<>>) : B \in {gLeftRecursive, gVariable}}

\* the task list Compile hands to join; the two ranges over t.rules take the
\* keys in any order
tasksOf(T, typesOrder, recursionOrder) ==
  <<countTypesTask(T, typesOrder), countRulesTask(T),
    checkRecursionTask(T, recursionOrder, <<>>)>>

JoinInit ==
  /\ ClassIdle
  /\ BuildIdle
  /\ ParseIdle
  /\ OffsetIdle
  /\ DefineIdle
  /\ ThunkIdle
  /\ ListIdle
  /\ xpc = "join"
  /\ jn = [pc |-> "spawn", started |-> 0, done |-> 0, d |-> 0]
  /\ \E T \in JoinTrees : \E o1, o2 \in Orders(DOMAIN T.rules) :
       traces = tasksOf(T, o1, o2)
  /\ task = [p \in 1..3 |-> [state |-> "none", pos |-> 0, reads |-> {}, writes |-> {}]]

\* the condition of join's receive loop
loopCondNone(d, length) == FALSE
loopCond(d, length) == d < length

\* go func(task func()) { ... }(task): the next goroutine starts
JoinGo ==
  /\ jn.pc = "spawn"
  /\ jn.started < Len(traces)
  /\ task' = [task EXCEPT ![jn.started + 1].state = "running"]
  /\ jn' = [jn EXCEPT !.started = @ + 1,
                      !.pc = IF jn.started + 1 = Len(traces) THEN "recv" ELSE "spawn"]
  /\ UNCHANGED <<xpc, traces, defineVars, thunkVars, listVars>>
  /\ UNCHANGED classVars
  /\ UNCHANGED buildVars
  /\ UNCHANGED parseVars
  /\ UNCHANGED offsetVars

\* task(): the goroutine makes its next visit
TaskVisit(p) ==
  /\ task[p].state = "running"
  /\ task[p].pos < Len(traces[p])
  /\ LET v == traces[p][task[p].pos + 1]
     IN task' = [task EXCEPT ![p].pos = @ + 1,
                             ![p].reads = @ \cup v.reads,
                             ![p].writes = @ \cup v.writes]
  /\ UNCHANGED <<xpc, jn, traces, defineVars, thunkVars, listVars>>
  /\ UNCHANGED classVars
  /\ UNCHANGED buildVars
  /\ UNCHANGED parseVars
  /\ UNCHANGED offsetVars

\* done <- 1: the channel has room for length values, the send never blocks
TaskSend(p) ==
  /\ task[p].state = "running"
  /\ task[p].pos = Len(traces[p])
  /\ jn.done < Len(traces)
  /\ task' = [task EXCEPT ![p].state = "exited"]
  /\ jn' = [jn EXCEPT !.done = @ + 1]
  /\ UNCHANGED <<xpc, traces, defineVars, thunkVars, listVars>>
  /\ UNCHANGED classVars
  /\ UNCHANGED buildVars
  /\ UNCHANGED parseVars
  /\ UNCHANGED offsetVars

\* for d := <-done; d < length; d += <-done {}: one receive, then the test
JoinRecv ==
  /\ jn.pc = "recv"
  /\ jn.done > 0
  /\ jn' = [jn EXCEPT !.done = @ - 1, !.d = @ + 1,
                      !.pc = IF loopCond(jn.d + 1, Len(traces)) THEN "recv" ELSE "returned"]
  /\ UNCHANGED <<xpc, task, traces, defineVars, thunkVars, listVars>>
  /\ UNCHANGED classVars
  /\ UNCHANGED buildVars
  /\ UNCHANGED parseVars
  /\ UNCHANGED offsetVars

JoinNext ==
  \/ JoinGo
  \/ JoinRecv
  \/ \E p \in 1..3 : TaskVisit(p)
  \/ \E p \in 1..3 : TaskSend(p)

SpecJoin == JoinInit /\ [][JoinNext]_vars

\* the scheduler runs every goroutine that can run: join's own and each task's
SpecJoinFair ==
  /\ SpecJoin
  /\ WF_vars(JoinGo \/ JoinRecv)
  /\ \A p \in 1..3 : WF_vars(TaskVisit(p) \/ TaskSend(p))

\* C15: under every interleaving of the goroutines join starts for its task
\* list, join returns only after every task has completed (no early return),
\* and it does return (no deadlock).
C15_JoinWaitsAndReturns ==
  /\ [](jn.pc = "returned" =>
          \A p \in 1..3 : task[p].state = "exited" /\ task[p].pos = Len(traces[p]))
  /\ <>(jn.pc = "returned")

C15_Witness ==
  /\ jn.pc = "returned"
  /\ jn.d = 3
  /\ \A p \in 1..3 : task[p].state = "exited"

\* what task p has read or written so far
touched(p) == task[p].reads \cup task[p].writes

\* C16: no state written by one analysis pass is read or written by another:
\* countTypes writes only the counts array, countRules only rulesCount and its
\* own ruleReached, checkRecursion only its own ruleReached and the
\* diagnostics; none of them writes the AST, the rules map or the rule list.
C16_PassesShareNoWrittenState ==
  /\ \A p, q \in DOMAIN task : p # q => task[p].writes \cap touched(q) = {}
  /\ \A p \in DOMAIN task :
       task[p].writes \subseteq
         (CASE p = 1 -> {"counts"}
            [] p = 2 -> {"rulesCount", ruleReached("countRules")}
            [] OTHER -> {ruleReached("checkRecursion"), "stderr"})

C16_Witness ==
  /\ jn.pc = "returned"
  /\ task[1].writes = {"counts"}
  /\ task[2].writes = {"rulesCount", ruleReached("countRules")}
  /\ task[3].writes = {ruleReached("checkRecursion"), "stderr"}
  /\ {"ast", "rules"} \subseteq task[2].reads \cap task[3].reads

(***************************************************************************)
(* The list specification: the front-end builds a sequence or an           *)
(* alternation left to right,                                              *)
(*   sequence = prefix (prefix { p.AddSequence() })*                       *)
(*   expression = sequence (BAR sequence { p.AddAlternate() })*            *)
(* on a stack that may hold the rule being defined underneath.             *)
(***************************************************************************)
ListBases == {<<>>, <<newRule("A", 0)>>}
ListElements ==
  {dot, nilNode, newName("A", ""), newList("Query", <<dot>>),
   newList("Sequence", <<dot, nilNode>>), newList("Alternate", <<nilNode, dot>>)}

ListInit ==
  /\ ClassIdle
  /\ ParseIdle
  /\ OffsetIdle
  /\ DefineIdle
  /\ ThunkIdle
  /\ JoinIdle
  /\ stack \in ListBases
  /\ ruleId = 0
  /\ rlist = <<>>
  /\ rules = EmptyMap
  /\ varp = ""
  /\ rulesCount = EmptyMap
  /\ diag = <<>>
  /\ ndecl = 0
  /\ bpc = "off"
  /\ pushed = <<>>
  /\ ltag \in {"Sequence", "Alternate"}
  /\ xpc = "list"

\* the front-end has matched the next operand and pushes its node
ListPush ==
  /\ xpc = "list"
  /\ Len(pushed) < MaxPushed
  /\ \E e \in ListElements :
       /\ stack' = push(stack, e)
       /\ pushed' = Append(pushed, e)
  /\ xpc' = IF pushed = <<>> THEN "list" ELSE "combine"
  /\ UNCHANGED <<ruleId, rlist, rules, varp, rulesCount, diag, ndecl, bpc, ltag>>
  /\ UNCHANGED <<defineVars, thunkVars, joinVars>>
  /\ UNCHANGED classVars
  /\ UNCHANGED parseVars
  /\ UNCHANGED offsetVars

\* Tree.AddSequence
ListAddSequence ==
  /\ xpc = "combine"
  /\ ltag = "Sequence"
  /\ stack' = addList(stack, "Sequence")
  /\ xpc' = "list"
  /\ UNCHANGED <<ruleId, rlist, rules, varp, rulesCount, diag, ndecl, bpc>>
  /\ UNCHANGED <<listVars, defineVars, thunkVars, joinVars>>
  /\ UNCHANGED classVars
  /\ UNCHANGED parseVars
  /\ UNCHANGED offsetVars

\* Tree.AddAlternate
ListAddAlternate ==
  /\ xpc = "combine"
  /\ ltag = "Alternate"
  /\ stack' = addList(stack, "Alternate")
  /\ xpc' = "list"
  /\ UNCHANGED <<ruleId, rlist, rules, varp, rulesCount, diag, ndecl, bpc>>
  /\ UNCHANGED <<listVars, defineVars, thunkVars, joinVars>>
  /\ UNCHANGED classVars
  /\ UNCHANGED parseVars
  /\ UNCHANGED offsetVars

ListNext == ListPush \/ ListAddSequence \/ ListAddAlternate

SpecList == ListInit /\ [][ListNext]_vars

\* C17: AddSequence (AddAlternate) pops a then b, appends a to b if b is a
\* list of the target type and otherwise makes the new list [b, a], and pushes
\* the result, so the stack gets one shorter and is unchanged below; and after
\* e1..ek, none a list of that type, were pushed and combined left to right,
\* the top of the stack is one list of that type with the children e1..ek.
C17_ListsCombineLeftToRight ==
  /\ [][xpc = "combine" =>
          LET a == stack[Len(stack)]
              b == stack[Len(stack) - 1]
          IN /\ Len(stack') = Len(stack) - 1
             /\ SubSeq(stack', 1, Len(stack') - 1) = SubSeq(stack, 1, Len(stack) - 2)
             /\ top(stack').type = ltag
             /\ top(stack').kids = (IF b.type = ltag THEN b.kids ELSE <<b>>) \o <<a>>]_vars
  /\ []((xpc = "list" /\ Len(pushed) >= 2
           /\ \A i \in 1..Len(pushed) : pushed[i].type # ltag) =>
          /\ top(stack) = newList(ltag, pushed)
          /\ pop(stack) \in ListBases)

C17_Witness ==
  /\ xpc = "list"
  /\ Len(pushed) = 3
  /\ \A i \in 1..Len(pushed) : pushed[i].type # ltag
  /\ top(stack) = newList(ltag, pushed)
  /\ ltag = "Sequence"
  /\ pushed[2].type = "Alternate"

(***************************************************************************)
(* Properties of the alternate optimization and of the emitted switch.     *)
(***************************************************************************)
\* the tree optimizeAlternates is given, and the rules map it leaves
switchTree(B) ==
  LET T == compileRegister(B.tree, <<>>)
  IN [rlist |-> T.rlist, rules |-> T.rules, classes |-> B.classes,
      switchExcl |-> B.switchExcl]
freshState(B) ==
  [cache |-> [id \in 0..(Len(switchTree(B).rlist) - 1) |-> noCache],
   rules |-> switchTree(B).rules, panic |-> FALSE]
optimizedRules(B) == optimize(switchTree(B)).rules

\* the rules the start rule reaches whose body is an Alternate
alternateRules(B) ==
  {i \in 1..Len(B.tree.rlist) :
     /\ B.tree.rlist[i].expression.type = "Alternate"
     /\ B.tree.rlist[i].name \in DOMAIN rulesCountOf(compileRegister(B.tree, <<>>))}

\* the synthesized tuple of a branch
firstOf(B, node) == optimizeAlternates(switchTree(B), node, freshState(B))

\* the branches have first-classes that are pairwise disjoint, and none is at eof
disjointFirst(B, kids) ==
  /\ \A c \in 1..Len(kids) : firstOf(B, kids[c]).class.k = "set" /\ ~firstOf(B, kids[c]).eof
  /\ \A c, e \in 1..Len(kids) :
       c # e => firstOf(B, kids[c]).class.s \cap firstOf(B, kids[e]).class.s = {}

countOp(body, op) == Cardinality({j \in 1..Len(body) : body[j].op = op})

\* the Alternate bodies with at least minK branches of disjoint first-classes
\* are pure UnorderedAlternates of guarded branches, emitted as one switch with
\* one clause per branch
switchedFrom(minK) ==
  ppc # "built" =>
    LET B == Grammars[gram]
    IN \A i \in alternateRules(B) :
         LET kids == B.tree.rlist[i].expression.kids
             k == Len(kids)
             opt == optimizedRules(B)[B.tree.rlist[i].name].expression
         IN (k >= minK /\ disjointFirst(B, kids)) =>
              /\ opt.type = "UnorderedAlternate"
              /\ Len(opt.kids) = k
              /\ \A c \in 1..k :
                   \E e \in 1..k :
                     opt.kids[e] = guarded(firstOf(B, kids[c]).class, kids[c])
              /\ \A v \in Variants :
                   (v.switch /\ ~code[v].panic /\ ~code[v].closures[i].nil) =>
                     /\ countOp(code[v].closures[i].body, "switch") = 1
                     /\ countOp(code[v].closures[i].body, "case")
                          + countOp(code[v].closures[i].body, "default") = k

emptyLast(B) ==
  {i \in alternateRules(B) :
     LET kids == B.tree.rlist[i].expression.kids
     IN kids[Len(kids)] = stringToken(<<>>)}

\* C19: with switch=true, optimizing an Alternate whose last branch is the
\* empty string literal completes without fault, also when the remaining three
\* or more branches are pairwise disjoint and the node is rewritten.
C19_EmptyLastBranchNoFault ==
  (ppc # "built" /\ emptyLast(Grammars[gram]) # {}) =>
    \A v \in Variants : v.switch => ~code[v].panic

(***************************************************************************)
(* The offset specification: one rule with its variables and its actions.  *)
(* Compile prints the action table, action.Print giving every variable of  *)
(* the action's rule its offset, and the rule passes that follow print     *)
(* doarg(yySet, varp.offset) for every name bound to a variable.           *)
(***************************************************************************)
VarNames == {"x", "y", "z"}

\* &variable{name: text}: the offset field starts as 0
newVariables(V) == [v \in V |-> 0]

OffsetInit ==
  /\ ClassIdle
  /\ BuildIdle
  /\ ParseIdle
  /\ DefineIdle
  /\ ThunkIdle
  /\ JoinIdle
  /\ ListIdle
  /\ xpc = "offsets"
  /\ \E V \in SUBSET VarNames :
       /\ V # {}
       /\ Cardinality(V) <= MaxVars
       /\ vmap = newVariables(V)
  /\ \E n \in 0..MaxRuleActions : ract = [n |-> n, printed |-> 0, names |-> 0]
  /\ emitted = <<>>

\* off--; v.offset = off, for the variables in the order the range yields them
rangeOffsets(order) ==
  [v \in {order[i] : i \in 1..Len(order)} |->
     0 - (CHOOSE i \in 1..Len(order) : order[i] = v)]

\* the lines of one loop of action.Print
printed(site, id, order, offsets) ==
  [i \in 1..Len(order) |->
     [site |-> site, action |-> id, name |-> order[i], offset |-> offsets[order[i]]]]

\* action.Print of the rule's next action: the prelude loop assigns the
\* offsets, the postlude loop prints them; each range over the map has its order
PrintAction ==
  /\ xpc = "offsets"
  /\ ract.printed < ract.n
  /\ \E o1, o2 \in Orders(DOMAIN vmap) :
       /\ vmap' = rangeOffsets(o1)
       /\ emitted' = emitted \o printed("prelude", ract.printed, o1, rangeOffsets(o1))
                             \o printed("postlude", ract.printed, o2, rangeOffsets(o1))
  /\ ract' = [ract EXCEPT !.printed = @ + 1]
  /\ UNCHANGED <<xpc, defineVars, thunkVars, joinVars, listVars>>
  /\ UNCHANGED classVars
  /\ UNCHANGED buildVars
  /\ UNCHANGED parseVars

\* compile, TypeName with varp != nil, in the real pass: doarg(yySet, varp.offset)
CompileName ==
  /\ xpc = "offsets"
  /\ ract.printed = ract.n
  /\ ract.names < MaxNames
  /\ \E v \in DOMAIN vmap :
       emitted' = Append(emitted, [site |-> "yySet", action |-> ract.n, name |-> v,
                                   offset |-> vmap[v]])
  /\ ract' = [ract EXCEPT !.names = @ + 1]
  /\ UNCHANGED <<xpc, vmap, defineVars, thunkVars, joinVars, listVars>>
  /\ UNCHANGED classVars
  /\ UNCHANGED buildVars
  /\ UNCHANGED parseVars

OffsetNext == PrintAction \/ CompileName

SpecOffsets == OffsetInit /\ [][OffsetNext]_vars

\* the offsets the emitted text uses for variable v
usedOffsets(v) ==
  {emitted[i].offset : i \in {j \in 1..Len(emitted) : emitted[j].name = v}}

\* C20: for every rule with k variables the emitted code uses one offset per
\* variable, out of -1..-k and different for different variables, the same in
\* the prelude and postlude of every action of the rule and in every
\* doarg(yySet, offset) of a name bound to the variable, whatever the order in
\* which the variable map is iterated, also for a rule without actions.
C20_OneOffsetPerVariable ==
  xpc = "offsets" =>
    LET k == Cardinality(DOMAIN vmap)
    IN /\ \A v \in DOMAIN vmap :
            /\ Cardinality(usedOffsets(v)) <= 1
            /\ usedOffsets(v) \subseteq {0 - i : i \in 1..k}
       /\ \A v, u \in DOMAIN vmap : v # u => usedOffsets(v) \cap usedOffsets(u) = {}

(***************************************************************************)
(* Properties of the labels of the emitted closures.                       *)
(***************************************************************************)
\* the places of a closure body where label id has its site, and the jumps to it
labelSites(body, id) == {j \in 1..Len(body) : body[j].op = "label" /\ body[j].id = id}
jumpsTo(body, id) ==
  {j \in 1..Len(body) : body[j].op \in {"goto", "cjump"} /\ body[j].target = id}
labelIds(body) ==
  {body[j].id : j \in {x \in 1..Len(body) : body[x].op = "label"}}
    \cup {body[j].target : j \in {x \in 1..Len(body) : body[x].op \in {"goto", "cjump"}}}

\* C18: in the real pass a label site lN: is emitted if and only if a jump to
\* lN (a goto of jump or of cJump) is emitted in the same rule closure: a label
\* nothing jumps to has no site, and no goto targets a label without a site.
C18_LabelSiteIffJump ==
  ppc # "built" =>
    \A v \in Variants :
      \A i \in 1..Len(code[v].closures) :
        \A id \in labelIds(code[v].closures[i].body) :
          /\ Cardinality(labelSites(code[v].closures[i].body, id)) = 1
          /\ jumpsTo(code[v].closures[i].body, id) # {}

\* the labels with a site or a jump in some closure of the code
emittedLabels(c) == UNION {labelIds(c.closures[i].body) : i \in 1..Len(c.closures)}

\* a label with its site and two jumps to it, and a label the generator
\* made (a later one has a site) that has neither site nor jump
C18_Witness ==
  /\ ppc = "compiled"
  /\ \E v \in Variants :
       /\ ~code[v].panic
       /\ \E i \in 1..Len(code[v].closures) :
            \E id \in labelIds(code[v].closures[i].body) :
              /\ labelSites(code[v].closures[i].body, id) # {}
              /\ Cardinality(jumpsTo(code[v].closures[i].body, id)) >= 2
       /\ \E id \in emittedLabels(code[v]) :
            \E n \in 0..id : n \notin emittedLabels(code[v])

(***************************************************************************)
(* The range specification: AddClass on a class text x-y, one iteration of *)
(* its range loop at a time.  The text is x, '-', y; the first round of    *)
(* the outer loop has added x and set last = x, the second finds the '-'   *)
(* and runs   for j := last; j <= text[i]; j++ { c.add(j) }   with j a     *)
(* uint8.                                                                  *)
(***************************************************************************)
RangeBytes == {0, 1, ChA, ChC, 200, 254, 255}

\* j++ of a uint8
nextByte(j) == (j + 1) % 256

RangeInit ==
  /\ BuildIdle
  /\ ParseIdle
  /\ AuxIdle
  /\ \E x, y \in RangeBytes :
       /\ cstr = <<x, ChMinus, y>>
       /\ cc = {x}
       /\ rj = x
  /\ cres = NoResult
  /\ cpc = "range"

\* j <= text[i]: c.add(j); j++
RangeAdd ==
  /\ cpc = "range"
  /\ rj <= cstr[3]
  /\ cc' = cc \cup {rj}
  /\ rj' = nextByte(rj)
  /\ UNCHANGED <<cstr, cres, cpc>>
  /\ UNCHANGED buildVars
  /\ UNCHANGED parseVars
  /\ UNCHANGED auxVars

\* the range loop ends, the outer loop ends, c.add(text[len(text)-1])
RangeEnd ==
  /\ cpc = "range"
  /\ ~(rj <= cstr[3])
  /\ cc' = cc \cup {cstr[3]}
  /\ cres' = [outcome |-> "ok", set |-> cc \cup {cstr[3]}]
  /\ cpc' = "ranged"
  /\ UNCHANGED <<cstr, rj>>
  /\ UNCHANGED buildVars
  /\ UNCHANGED parseVars
  /\ UNCHANGED auxVars

RangeNext == RangeAdd \/ RangeEnd

SpecRange == RangeInit /\ [][RangeNext]_vars

\* AddClass runs on: a step that can be taken is taken
SpecRangeFair == SpecRange /\ WF_vars(RangeNext)

\* C21: AddClass terminates for every class string with a range x-y, for all
\* byte values x and y, also when the upper bound y is byte 255.
C21_RangeLoopTerminates == <>(cpc = "ranged")

(***************************************************************************)
(* Properties of the optimizer on branches without a first-class.          *)
(***************************************************************************)
\* the Alternate bodies with a branch that yields no first-class: a lone
\* Predicate, Commit, Begin or End, the name of a switch-excluded rule, or the
\* name of the rule being visited
classlessBranch(B) ==
  {i \in alternateRules(B) :
     \E c \in 1..Len(B.tree.rlist[i].expression.kids) :
       LET kid == B.tree.rlist[i].expression.kids[c]
       IN \/ kid.type \in {"Predicate", "Commit", "Begin", "End"}
          \/ /\ kid.type = "Name"
             /\ kid.string \in B.switchExcl \cup {B.tree.rlist[i].name}}

\* C22: with switch=true, optimizing an Alternate of two or more branches in
\* which some branch yields no first-class (a Name of a switch-excluded rule,
\* a rule being visited, a lone Predicate, Commit, Begin or End) completes
\* without fault: the pairwise comparison uses no absent class.
C22_ClasslessBranchNoFault ==
  (ppc # "built" /\ classlessBranch(Grammars[gram]) # {}) =>
    \A v \in Variants : v.switch => ~code[v].panic

(***************************************************************************)
(* The commit test and what it needs in the emitted program: the snapshot  *)
(* thunkPosition0 of the rule closure it stands in, and the commit helper. *)
(***************************************************************************)
\* countTypes: the number of nodes of one type under a node; names are not
\* followed
RECURSIVE countTypes(_, _)
countTypes(node, type) ==
  (IF node.type = type THEN 1 ELSE 0) +
  (CASE node.type = "Rule" -> countTypes(node.expression, type)
     [] node.type \in {"Alternate", "UnorderedAlternate", "Sequence"} ->
          LET RECURSIVE each(_)
              each(i) == IF i > Len(node.kids) THEN 0
                         ELSE countTypes(node.kids[i], type) + each(i + 1)
          IN each(1)
     [] node.type \in {"PeekFor", "PeekNot", "Query", "Star", "Plus"} ->
          countTypes(node.kids[1], type)
     [] OTHER -> 0)

\* if counts[TypeCommit] > 0: the commit helper is printed
commitHelper(B) ==
  LET T == compileRegister(B.tree, <<>>)
  IN \E n \in DOMAIN T.rules : countTypes(T.rules[n], "Commit") > 0

\* the instructions of a closure that test commit(thunkPosition0), and those
\* that take the rule-level snapshot thunkPosition0 := thunkPosition
commitTests(body) ==
  {j \in 1..Len(body) : body[j].op = "cjump" /\ body[j].cond.c = "commit"}
ruleSnapshots(body) ==
  {j \in 1..Len(body) : body[j].op = "save" /\ body[j].sid = 0 /\ body[j].thPos}

====
